---- MODULE Spec2Model ----
(***************************************************************************)
(* A model of the ai-interpreter core: the ToolRegistry (capability        *)
(* registry), the extractJson scanner, Assistant.retryOperation and        *)
(* Assistant.callAgent.  Each component has its own variables and its own  *)
(* specification; a specification leaves the other components' variables   *)
(* at their initial values.                                                *)
(***************************************************************************)
EXTENDS Integers, Sequences, FiniteSets, TLC

VARIABLES
  tools,      \* registryData.tools: the ordered list of Tool objects (references)
  heap,       \* the Tool objects ever constructed, by reference
  metrics,    \* ToolRegistry.metrics: the metrics table keyed by tool name
  call,       \* the registry operations in flight, one per caller
  done,       \* the registry operation that returned last, with what it returned
  updatesBegun, \* updateTool calls begun so far (bounds the run)
  rollbacksBegun, \* rollbackTool calls begun so far (bounds the run)
  segs,       \* extractJson: the pieces the input text was put together from
  viaAgent,   \* extractJson: called by callAgent on a model reply (fences stripped)
  content,    \* extractJson: its argument
  pos,        \* extractJson: the loop index i (1-based)
  scan,       \* extractJson: depth, currentJson, inString, escapeNext, jsonObjects
  globalRetryCount,   \* Assistant.globalRetryCount
  retry,      \* retryOperation: per call in flight, its arguments, locals and position
  agent,      \* callAgent: the locals and position of the call in flight, its result
  cs,         \* callScript: the locals and position of the call in flight, its outcome
  store,      \* Assistant.store: the run store, a list of <<key, value>> entries
  job,        \* the test run, maintenance pass or invocation in flight, or its outcome
  jobsBegun,  \* test runs, maintenance passes and invocations begun so far (bounds the run)
  llm,        \* callLLM.execute: the locals and position of the call in flight, its outcome
  run,        \* a run's scripts: the store, the context of the script in flight, what it did
  dispatch    \* Assistant.callTool: the call in flight, and ToolRegistry.loadedTools

regVars == <<tools, heap, metrics, call, done, updatesBegun, rollbacksBegun>>
jsonVars == <<segs, viaAgent, content, pos, scan>>
retryVars == <<globalRetryCount, retry>>

agentVars == <<agent, cs, store>>

toolVars == <<job, jobsBegun>>

llmVars == <<llm>>

ctxVars == <<run>>

dispVars == <<dispatch>>

vars == <<regVars, jsonVars, retryVars, agentVars, toolVars, llmVars, ctxVars, dispVars>>

(***************************************************************************)
(* Bounds and input domains                                                *)
(***************************************************************************)
MaxObjects == 2       \* Tool objects alive (listed or held by a pending call) at once
MaxUpdates == 1       \* updateTool and rollbackTool calls begun in one run

Callers == {"c1", "c2"}              \* concurrent callers of the registry
ObjIds  == 1..MaxObjects
Names   == {"a", "b"}
NoSource == ""                       \* a falsy source argument ('' or undefined)
Sources == {"s1", "s2"}
AddSources == {"s1"}                 \* sources passed to addTool
UpdSources == {"s2"}                 \* sources passed to updateTool
NoSchema == "undefined"              \* a missing schema argument
Schemas == {"sch1", "sch2"}
AddSchemas == {"sch1"}               \* schemas passed to addTool
UpdSchemas == {"sch2"}               \* schemas passed to updateTool
TagSets == {"t1", "t2"}
AddTags == {"t1"}                    \* tags passed to addTool
UpdTags == {"t2"}                    \* tags passed to updateTool
Harnesses == {"h1"}                  \* replies of the test-harness model call

(***************************************************************************)
(* ToolRegistry                                                            *)
(***************************************************************************)
InitialVersion == <<1, 0, 0>>

incrementVersion(version) == <<version[1], version[2], version[3] + 1>>

\* Tool.lastTestResult = null
NoResult == [recorded |-> FALSE, success |-> FALSE, message |-> ""]

\* Tool.initializeMetrics: the counters of the object's own metrics; errorRate is
\* kept as the fraction <<numerator, denominator>>
NoToolMetrics ==
  [totalRuns |-> 0, passed |-> 0, failed |-> 0, totalExecutions |-> 0,
   usageCount |-> 0, errorRate |-> <<0, 1>>]

\* new Tool(registry, name, version, description, source, tags, schema)
NewTool(name, version, source, tags, schema) ==
  [name |-> name, version |-> version, source |-> source, tags |-> tags,
   schema |-> schema, active |-> FALSE, testHarness |-> "",
   lastTestResult |-> NoResult, metrics |-> NoToolMetrics]

\* a heap slot that holds no object
FreeSlot == NewTool("", <<0, 0, 0>>, "", "", "")

\* registryData.tools.findIndex(t => t.name === name); 0 stands for -1
findIndex(name) ==
  IF \E i \in DOMAIN tools : heap[tools[i]].name = name
  THEN CHOOSE i \in DOMAIN tools :
         /\ heap[tools[i]].name = name
         /\ \A j \in DOMAIN tools : heap[tools[j]].name = name => i <= j
  ELSE 0

NameTakenNever(name) == FALSE

\* registryData.tools.some(t => t.name === name)
NameTaken(name) == \E i \in DOMAIN tools : heap[tools[i]].name = name

NoMetrics ==
  [present |-> FALSE, versions |-> <<>>, totalUpdates |-> 0, totalRuns |-> 0,
   passed |-> 0, failed |-> 0, totalExecutions |-> 0, usageCount |-> 0]

MetricsVersionResets(m, name, version) ==
  [m EXCEPT ![name] = [NoMetrics EXCEPT !.present = TRUE, !.versions = <<version>>,
                                        !.totalUpdates = 1]]

\* ToolRegistry.updateMetrics(toolName, 'version', data)
MetricsVersion(m, name, version) ==
  [m EXCEPT ![name].present = TRUE,
            ![name].versions = Append(@, version),
            ![name].totalUpdates = @ + 1]

\* ToolRegistry.updateMetrics(toolName, 'execution', data)
MetricsExecution(m, name) ==
  [m EXCEPT ![name].present = TRUE, ![name].totalExecutions = @ + 1]

\* EventEmitter.emit('error', ...) returns when an 'error' listener is registered
\* on the emitter and throws when none is; the repository registers none, the
\* embedding application may
emitError(listening) == listening

Idle == [op |-> "none", pc |-> "idle"]

Busy(c) == call[c].pc # "idle"

\* a call returns: the caller is idle again and `done` keeps what it returned
Return(c, result) ==
  /\ call' = [call EXCEPT ![c] = Idle]
  /\ done' = result

\* the objects a pending call still holds a reference to
Held(cl) ==
  {cl[c].obj : c \in {d \in Callers : cl[d].pc \in {"upd_meta", "upd_harness", "upd_save"}}}
    \cup (IF job.pc \in {"idle", "returned", "raised"} THEN {}
          ELSE ({job.obj} \cup {job.list[i] : i \in DOMAIN job.list}) \ {0})

\* the heap once the objects nobody refers to any more are reclaimed
Collect(h, tl, cl) ==
  [o \in ObjIds |-> IF o \in {tl[i] : i \in DOMAIN tl} \cup Held(cl) THEN h[o] ELSE FreeSlot]

Alive == {o \in ObjIds : heap[o] # FreeSlot}

PendingAdds == Cardinality({d \in Callers : call[d].pc = "add_standardize"})

RegStart ==
  /\ tools = <<>>
  /\ heap = [o \in ObjIds |-> FreeSlot]
  /\ metrics = [n \in Names |-> NoMetrics]
  /\ call = [c \in Callers |-> Idle]
  /\ done = [op |-> "none"]
  /\ updatesBegun = 0
  /\ rollbacksBegun = 0

\* addTool up to its first suspension: the existence check, then the awaited
\* standardizeTool model call
AddToolBegin(c, name, source, schema, tags) ==
  /\ ~Busy(c)
  /\ Cardinality(Alive) + PendingAdds < MaxObjects
  /\ IF NameTaken(name)
     THEN Return(c, [op |-> "addTool", ret |-> FALSE, existed |-> TRUE,
                     standardized |-> FALSE])
     ELSE /\ call' = [call EXCEPT ![c] = [op |-> "addTool", pc |-> "add_standardize",
                                           name |-> name, source |-> source,
                                           schema |-> schema, tags |-> tags]]
          /\ UNCHANGED done
  /\ UNCHANGED <<tools, heap, metrics, updatesBegun, rollbacksBegun>>

standardizedSourceLost(source, reply) == IF reply = "throw" THEN NoSource ELSE reply

\* `let standardizedSource = source; try { standardizedSource = await
\* this.standardizeTool(...) } catch { console.warn(...) }`
standardizedSource(source, reply) == IF reply = "throw" THEN source ELSE reply

\* addTool after standardizeTool resolved with `reply`, or threw
AddToolResume(c, reply) ==
  /\ call[c].pc = "add_standardize"
  /\ LET o == CHOOSE x \in ObjIds : heap[x] = FreeSlot /\ \A y \in ObjIds : heap[y] = FreeSlot => x <= y
     IN IF call[c].schema = NoSchema
        THEN \* schema.description of undefined throws: caught, return false
             /\ Return(c, [op |-> "addTool", ret |-> FALSE, existed |-> FALSE,
                            standardized |-> reply # "throw"])
             /\ UNCHANGED <<tools, heap>>
        ELSE /\ tools' = Append(tools, o)
             /\ Return(c, [op |-> "addTool", ret |-> TRUE, existed |-> FALSE,
                            standardized |-> reply # "throw"])
             /\ heap' = [heap EXCEPT ![o] = NewTool(call[c].name, InitialVersion,
                                                    standardizedSource(call[c].source, reply),
                                                    call[c].tags,
                                                    call[c].schema)]
  /\ UNCHANGED <<metrics, updatesBegun, rollbacksBegun>>

\* updateTool up to its first suspension
UpdateToolBegin(c, name, source, schema, tags) ==
  /\ ~Busy(c)
  /\ updatesBegun + rollbacksBegun < MaxUpdates
  /\ updatesBegun' = updatesBegun + 1
  /\ LET toolIndex == findIndex(name) IN
     IF toolIndex = 0
     THEN /\ Return(c, [op |-> "updateTool", ret |-> FALSE, found |-> FALSE])
          /\ UNCHANGED heap
     ELSE LET o == tools[toolIndex]
              tool == heap[o]
              newVersion == incrementVersion(tool.version)
              cond == (schema # NoSchema /\ schema # tool.schema) \/ source # NoSource
              t1 == [tool EXCEPT !.version = newVersion, !.tags = tags, !.active = TRUE]
              t2 == IF cond
                    THEN [t1 EXCEPT !.source = IF source # NoSource THEN source ELSE @,
                                    !.schema = IF schema # NoSchema THEN schema ELSE @]
                    ELSE t1
          IN /\ call' = [call EXCEPT ![c] =
                   [op |-> "updateTool", name |-> name, obj |-> o, found |-> TRUE,
                    pc |-> IF ~cond THEN "upd_save"
                           ELSE IF schema # NoSchema THEN "upd_meta" ELSE "upd_harness",
                    changed |-> (t2.source # tool.source \/ t2.schema # tool.schema),
                    oldVersion |-> tool.version, newVersion |-> newVersion]]
             /\ heap' = [heap EXCEPT ![o] = t2]
             /\ UNCHANGED done
  /\ UNCHANGED <<tools, metrics, rollbacksBegun>>

\* updateTool after MetadataManager.getMetadata / updateMetadata resolved or threw
UpdateToolMeta(c, ok) ==
  /\ call[c].pc = "upd_meta"
  /\ IF ok
     THEN /\ call' = [call EXCEPT ![c].pc = "upd_harness"]
          /\ UNCHANGED done
     ELSE Return(c, [op |-> "updateTool", ret |-> FALSE, found |-> TRUE])
  /\ heap' = Collect(heap, tools, call')
  /\ UNCHANGED <<tools, metrics, updatesBegun, rollbacksBegun>>

\* Tool.saveTool on object o: tools[findIndex(this.name)] = this
saveTool(tl, o) ==
  LET toolIndex == findIndex(heap[o].name)
  IN IF toolIndex = 0 THEN tl ELSE [tl EXCEPT ![toolIndex] = o]

\* Tool.generateTestHarness after its model call resolved with `reply` or threw,
\* then updateTool's first updateMetrics(name, 'version', newVersion)
UpdateToolHarness(c, reply, listening) ==
  /\ call[c].pc = "upd_harness"
  /\ IF reply = "throw" /\ ~emitError(listening)
     THEN \* the emit in generateTestHarness's catch throws: updateTool's catch
          /\ Return(c, [op |-> "updateTool", ret |-> FALSE, found |-> TRUE])
          /\ heap' = Collect(heap, tools, call')
          /\ UNCHANGED <<tools, metrics>>
     ELSE LET o == call[c].obj IN
          /\ tools' = IF reply = "throw" THEN tools ELSE saveTool(tools, o)
          /\ call' = [call EXCEPT ![c].pc = "upd_save"]
          /\ heap' = Collect(IF reply = "throw" THEN heap
                             ELSE [heap EXCEPT ![o].testHarness = reply], tools', call')
          /\ metrics' = MetricsVersion(metrics, call[c].name, call[c].newVersion)
          /\ UNCHANGED done
  /\ UNCHANGED <<updatesBegun, rollbacksBegun>>

\* updateTool after saveToolToRepo: the second updateMetrics, return true
UpdateToolSave(c) ==
  /\ call[c].pc = "upd_save"
  /\ metrics' = MetricsVersion(metrics, call[c].name, call[c].newVersion)
  /\ Return(c, [op |-> "updateTool", ret |-> TRUE, found |-> TRUE,
                 changed |-> call[c].changed,
                 bump |-> call[c].newVersion[3] - call[c].oldVersion[3]])
  /\ heap' = Collect(heap, tools, call')
  /\ UNCHANGED <<tools, updatesBegun, rollbacksBegun>>

removedAlways(kept, initial) == TRUE

\* `this.registryData.tools.length < initialLength`
removed(kept, initial) == Len(kept) < Len(initial)

\* removeTool
RemoveTool(c, name) ==
  /\ ~Busy(c)
  /\ LET kept == SelectSeq(tools, LAMBDA o : heap[o].name # name)
     IN /\ tools' = kept
        /\ Return(c, [op |-> "removeTool", ret |-> removed(kept, tools), name |-> name])
        /\ heap' = Collect(heap, kept, call')
  /\ UNCHANGED <<metrics, updatesBegun, rollbacksBegun>>

\* the `tools` getter: the unit each name maps to is the last one listed under it
toolsGetter(name) ==
  IF NameTaken(name)
  THEN tools[CHOOSE i \in DOMAIN tools :
               /\ heap[tools[i]].name = name
               /\ \A j \in DOMAIN tools : heap[tools[j]].name = name => j <= i]
  ELSE 0

\* rollbackTool up to `await this.getTool(name)`
RollbackToolBegin(c, name, version) ==
  /\ ~Busy(c)
  /\ updatesBegun + rollbacksBegun < MaxUpdates
  /\ rollbacksBegun' = rollbacksBegun + 1
  /\ LET toolIndex == findIndex(name) IN
     IF toolIndex = 0 \/ toolsGetter(name) = 0
     THEN Return(c, [op |-> "rollbackTool", ret |-> FALSE])
     ELSE /\ call' = [call EXCEPT ![c] = [op |-> "rollbackTool", pc |-> "rb_resume",
                                           name |-> name, version |-> version,
                                           toolIndex |-> toolIndex]]
          /\ UNCHANGED done
  /\ UNCHANGED <<tools, heap, metrics, updatesBegun>>

\* rollbackTool after the await: `const tool = this.registryData.tools[toolIndex]`
RollbackToolResume(c) ==
  /\ call[c].pc = "rb_resume"
  /\ LET toolIndex == call[c].toolIndex IN
     IF toolIndex > Len(tools)
     THEN \* tool is undefined: the assignment throws, caught, return false
          /\ Return(c, [op |-> "rollbackTool", ret |-> FALSE])
          /\ UNCHANGED <<heap, metrics>>
     ELSE /\ heap' = [heap EXCEPT ![tools[toolIndex]].version = call[c].version,
                                  ![tools[toolIndex]].active = TRUE]
          /\ metrics' = MetricsVersion(metrics, call[c].name, call[c].version)
          /\ Return(c, [op |-> "rollbackTool", ret |-> TRUE])
  /\ UNCHANGED <<tools, updatesBegun, rollbacksBegun>>

RollbackVersions == {<<1, 0, 0>>}    \* version labels passed to rollbackTool

RegNext ==
  \/ \E c \in Callers, name \in Names, source \in AddSources,
        schema \in AddSchemas \cup {NoSchema}, tags \in AddTags :
        AddToolBegin(c, name, source, schema, tags)
  \/ \E c \in Callers, reply \in (Sources \ AddSources) \cup {"throw"} : AddToolResume(c, reply)
  \/ \E c \in Callers, name \in Names, source \in UpdSources \cup {NoSource},
        schema \in UpdSchemas \cup {NoSchema}, tags \in UpdTags :
        UpdateToolBegin(c, name, source, schema, tags)
  \/ \E c \in Callers, ok \in BOOLEAN : UpdateToolMeta(c, ok)
  \/ \E c \in Callers, reply \in Harnesses \cup {"throw"}, listening \in BOOLEAN :
        UpdateToolHarness(c, reply, listening)
  \/ \E c \in Callers : UpdateToolSave(c)
  \/ \E c \in Callers, name \in Names : RemoveTool(c, name)
  \/ \E c \in Callers, name \in Names, version \in RollbackVersions :
        RollbackToolBegin(c, name, version)
  \/ \E c \in Callers : RollbackToolResume(c)

(***************************************************************************)
(* Tool.runTests, Tool.call, ToolRegistry.callTool and the maintenance     *)
(* passes                                                                  *)
(***************************************************************************)
MaxJobs == 2          \* test runs, maintenance passes and invocations begun in one run

NoJob == [pc |-> "idle"]

ToolStart == job = NoJob /\ jobsBegun = 0

\* the locals of an operation that starts
NewJob(op) ==
  [pc |-> "idle", op |-> op, obj |-> 0, name |-> "", ran |-> <<>>, todo |-> <<>>,
   outcome |-> "none", before |-> FreeSlot, list |-> <<>>, k |-> 0, improved |-> <<>>,
   caller |-> "none", tableBefore |-> NoMetrics, harness |-> ""]

\* the keys of the object a harness text evaluates to, in `for ... in` order
HarnessKeys(harness) ==
  IF harness = "h1" THEN <<"test1", "beforeAll", "test2">>
  ELSE IF harness = "h2" THEN <<"test1">>
  ELSE <<>>

HasBeforeAll(harness) ==
  \E i \in DOMAIN HarnessKeys(harness) : HarnessKeys(harness)[i] = "beforeAll"

\* `for (const key in testHarness) if (key !== 'beforeAll')`
OtherSteps(harness) == SelectSeq(HarnessKeys(harness), LAMBDA key : key # "beforeAll")

NoHarnessNever(harness) == FALSE

\* `!this.testHarness`
NoHarness(harness) == harness = ""

\* runTests has settled: a direct caller gets the outcome, testTool goes on
Settled(j, outcome) ==
  [j EXCEPT !.outcome = outcome,
            !.pc = IF j.op # "runTests" THEN "tested"
                   ELSE IF outcome = "unhandled" THEN "raised" ELSE "returned"]

\* Tool.runTests on object o up to `await testHarness.beforeAll(context)`, or to
\* its return when there is no harness
StartRun(j, o, harness, listening) ==
  LET j1 == [j EXCEPT !.obj = o, !.name = heap[o].name, !.before = heap[o],
                      !.tableBefore = metrics[heap[o].name], !.ran = <<>>, !.todo = <<>>,
                      !.harness = harness]
  IN IF NoHarness(harness)
     THEN Settled(j1, IF emitError(listening) THEN "noHarness" ELSE "unhandled")
     ELSE [j1 EXCEPT !.pc = "step", !.ran = <<"beforeAll">>, !.todo = OtherSteps(harness)]

\* `this.lastTestResult = {...}` and Tool.updateMetrics('test', { success })
TestCounted(h, o, success) ==
  [h EXCEPT ![o].lastTestResult = [recorded |-> TRUE, success |-> success,
                                   message |-> IF success THEN "All tests passed successfully"
                                               ELSE "Test failed: thrown"],
            ![o].metrics.totalRuns = @ + 1,
            ![o].metrics.passed = IF success THEN @ + 1 ELSE @,
            ![o].metrics.failed = IF success THEN @ ELSE @ + 1]

\* Tool.runTests is called on a listed unit
RunTestsBegin(o, listening) ==
  /\ job.pc = "idle" /\ jobsBegun < MaxJobs
  /\ o \in {tools[i] : i \in DOMAIN tools}
  /\ job' = StartRun(NewJob("runTests"), o, heap[o].testHarness, listening)
  /\ jobsBegun' = jobsBegun + 1
  /\ UNCHANGED regVars

\* a step of the harness returns or throws; after the last one, or in the catch
\* block, the result is recorded and counted (Tool.updateMetrics ends with
\* saveMetrics, which adds a 'version' entry to the registry's table)
StepSettles(ok, listening) ==
  /\ job.pc = "step"
  /\ (job.ran = <<"beforeAll">> /\ ~HasBeforeAll(job.harness)) => ~ok
  /\ LET o == job.obj IN
     IF ok /\ job.todo # <<>>
     THEN /\ job' = [job EXCEPT !.ran = Append(@, Head(job.todo)), !.todo = Tail(@)]
          /\ UNCHANGED <<tools, heap, metrics>>
     ELSE IF ok
     THEN /\ heap' = TestCounted(heap, o, TRUE)
          /\ tools' = saveTool(tools, o)
          /\ metrics' = MetricsVersion(metrics, heap[o].name, heap[o].version)
          /\ job' = Settled(job, "passed")
     ELSE IF emitError(listening)
     THEN /\ heap' = TestCounted(heap, o, FALSE)
          /\ metrics' = MetricsVersion(metrics, heap[o].name, heap[o].version)
          /\ job' = Settled(job, "failed")
          /\ UNCHANGED tools
     ELSE \* the emit in the catch block throws: runTests rejects
          /\ job' = Settled(job, "unhandled")
          /\ UNCHANGED <<tools, heap, metrics>>
  /\ UNCHANGED <<call, done, updatesBegun, rollbacksBegun, jobsBegun>>

\* testTool(tool) up to its first await: generateTestHarness when the unit has
\* no harness, else runTests
TestTool(j, listening) ==
  LET o == j.list[j.k] IN
  IF heap[o].testHarness = ""
  THEN [j EXCEPT !.obj = o, !.name = heap[o].name, !.before = heap[o],
                 !.tableBefore = metrics[heap[o].name], !.pc = "gen"]
  ELSE StartRun(j, o, heap[o].testHarness, listening)

\* testAndImproveTools: the for loop moves on to the next unit of the list
NextTool(j, listening) ==
  IF j.k < Len(j.list) THEN TestTool([j EXCEPT !.k = @ + 1], listening)
  ELSE [j EXCEPT !.pc = "returned"]

\* `tool.lastTestResult && !tool.lastTestResult.success`
failing(o) == heap[o].lastTestResult.recorded /\ ~heap[o].lastTestResult.success

\* improveTools: the for loop moves on to the next unit whose last test failed
\* and starts improveTool on it
NextFailing(j) ==
  IF \E i \in DOMAIN j.list : i > j.k /\ failing(j.list[i])
  THEN LET i == CHOOSE x \in DOMAIN j.list :
                  /\ x > j.k /\ failing(j.list[x])
                  /\ \A y \in DOMAIN j.list : (y > j.k /\ failing(j.list[y])) => x <= y
       IN [j EXCEPT !.k = i, !.obj = j.list[i], !.name = heap[j.list[i]].name,
                    !.pc = "improve_chat", !.improved = Append(@, j.list[i])]
  ELSE [j EXCEPT !.pc = "returned"]

Continue(j, listening) ==
  IF j.op = "maintain" THEN NextTool(j, listening) ELSE NextFailing(j)

\* the hourly pass, testAndImproveTools, starts on the units listed now
MaintainBegin(listening) ==
  /\ job.pc = "idle" /\ jobsBegun < MaxJobs
  /\ job' = NextTool([NewJob("maintain") EXCEPT !.list = tools], listening)
  /\ jobsBegun' = jobsBegun + 1
  /\ UNCHANGED regVars

GenReplies == {"h1", "", "throw"}      \* outcomes of the harness model call

\* testTool: generateTestHarness settles (its catch block emits 'error'), then
\* runTests is called
GenSettles(reply, listening) ==
  /\ job.pc = "gen"
  /\ LET o == job.obj IN
     IF reply = "throw"
     THEN /\ job' = IF emitError(listening)
                    THEN StartRun(job, o, heap[o].testHarness, listening)
                    ELSE [job EXCEPT !.pc = "raised", !.outcome = "unhandled"]
          /\ UNCHANGED <<tools, heap>>
     ELSE /\ heap' = [heap EXCEPT ![o].testHarness = reply]
          /\ tools' = saveTool(tools, o)
          /\ job' = StartRun(job, o, reply, listening)
  /\ UNCHANGED <<metrics, call, done, updatesBegun, rollbacksBegun, jobsBegun>>

\* testTool returns `{ success: tool.lastTestResult?.success || false }`, or
\* `{ success: false }` from its catch; testAndImproveTools calls improveTool
\* when it is not a success
TestToolReturns(listening) ==
  /\ job.pc = "tested"
  /\ LET o == job.obj
         success == /\ job.outcome # "unhandled"
                    /\ heap[o].lastTestResult.recorded /\ heap[o].lastTestResult.success
     IN job' = IF success THEN NextTool(job, listening)
               ELSE [job EXCEPT !.pc = "improve_chat", !.improved = Append(@, o)]
  /\ UNCHANGED <<regVars, jobsBegun>>

\* improveTools starts on the units listed now
ImproveToolsBegin ==
  /\ job.pc = "idle" /\ jobsBegun < MaxJobs
  /\ job' = NextFailing([NewJob("improveTools") EXCEPT !.list = tools])
  /\ jobsBegun' = jobsBegun + 1
  /\ UNCHANGED regVars

ImprovedSource == "s2"       \* what the improvement model call answers

\* improveTool: the model call settles; updateTool is called with its answer, or
\* the catch block emits 'error'
ImproveChatSettles(ok, c, listening) ==
  /\ job.pc = "improve_chat"
  /\ IF ok
     THEN /\ UpdateToolBegin(c, heap[job.obj].name, ImprovedSource, heap[job.obj].schema,
                             heap[job.obj].tags)
          /\ job' = [job EXCEPT !.pc = "improve_update", !.caller = c]
     ELSE /\ job' = IF emitError(listening) THEN Continue(job, listening)
                    ELSE [job EXCEPT !.pc = "raised", !.outcome = "unhandled"]
          /\ UNCHANGED regVars
  /\ UNCHANGED jobsBegun

\* improveTool: updateTool has returned; the loop moves on
ImproveUpdateDone(listening) ==
  /\ job.pc = "improve_update" /\ call[job.caller].pc = "idle"
  /\ job' = Continue(job, listening)
  /\ UNCHANGED <<regVars, jobsBegun>>

\* ToolRegistry.callTool(name, params) up to `await import(tool._path)`
CallToolBegin(name) ==
  /\ job.pc = "idle" /\ jobsBegun < MaxJobs
  /\ job' = IF toolsGetter(name) = 0
            THEN [NewJob("callTool") EXCEPT !.name = name, !.pc = "raised",
                                            !.outcome = "notFound"]
            ELSE [NewJob("callTool") EXCEPT !.name = name, !.obj = toolsGetter(name),
                                            !.before = heap[toolsGetter(name)],
                                            !.tableBefore = metrics[name], !.pc = "ct_run"]
  /\ jobsBegun' = jobsBegun + 1
  /\ UNCHANGED regVars

\* ToolRegistry.callTool: the module's function returns (the execution is
\* recorded in the registry's table) or throws (logged and rethrown)
CallToolSettles(ok) ==
  /\ job.pc = "ct_run"
  /\ metrics' = IF ok THEN MetricsExecution(metrics, job.name) ELSE metrics
  /\ job' = [job EXCEPT !.pc = IF ok THEN "returned" ELSE "raised",
                        !.outcome = IF ok THEN "executed" ELSE "threw"]
  /\ UNCHANGED <<tools, heap, call, done, updatesBegun, rollbacksBegun, jobsBegun>>

\* `(errorRate * usageCount + 1) / (usageCount + 1)` on the fraction rate
ErrorRate(rate, usageCount) ==
  <<rate[1] * usageCount + rate[2], rate[2] * (usageCount + 1)>>

\* ToolRegistry.call(name, params): Tool.call up to `await this.executor()(...)`,
\* after updateMetrics('usage')
ToolCallBegin(name) ==
  /\ job.pc = "idle" /\ jobsBegun < MaxJobs
  /\ jobsBegun' = jobsBegun + 1
  /\ IF findIndex(name) = 0
     THEN /\ job' = [NewJob("call") EXCEPT !.name = name, !.pc = "raised",
                                           !.outcome = "notFound"]
          /\ UNCHANGED <<heap, metrics>>
     ELSE LET o == tools[findIndex(name)] IN
          /\ job' = [NewJob("call") EXCEPT !.name = name, !.obj = o, !.before = heap[o],
                                           !.tableBefore = metrics[name], !.pc = "call_run"]
          /\ heap' = [heap EXCEPT ![o].metrics.usageCount = @ + 1]
          /\ metrics' = MetricsVersion(metrics, heap[o].name, heap[o].version)
  /\ UNCHANGED <<tools, call, done, updatesBegun, rollbacksBegun>>

\* Tool.call: the executor returns (updateMetrics('execution')) or throws
\* (updateMetrics('error', true), emit, rethrow)
ToolCallSettles(ok) ==
  /\ job.pc = "call_run"
  /\ LET o == job.obj IN
     /\ heap' = IF ok THEN [heap EXCEPT ![o].metrics.totalExecutions = @ + 1]
                ELSE [heap EXCEPT ![o].metrics.errorRate =
                                     ErrorRate(@, heap[o].metrics.usageCount)]
     /\ metrics' = MetricsVersion(metrics, heap[o].name, heap[o].version)
  /\ job' = [job EXCEPT !.pc = IF ok THEN "returned" ELSE "raised",
                        !.outcome = IF ok THEN "executed" ELSE "threw"]
  /\ UNCHANGED <<tools, call, done, updatesBegun, rollbacksBegun, jobsBegun>>

\* the caller has the outcome
JobCollect ==
  /\ job.pc \in {"returned", "raised"}
  /\ job' = NoJob
  /\ UNCHANGED <<regVars, jobsBegun>>


ToolNext ==
  \/ \E o \in ObjIds, listening \in BOOLEAN : RunTestsBegin(o, listening)
  \/ \E ok \in BOOLEAN, listening \in BOOLEAN : StepSettles(ok, listening)
  \/ \E listening \in BOOLEAN : MaintainBegin(listening)
  \/ \E reply \in GenReplies, listening \in BOOLEAN : GenSettles(reply, listening)
  \/ \E listening \in BOOLEAN : TestToolReturns(listening)
  \/ ImproveToolsBegin
  \/ \E ok \in BOOLEAN, listening \in BOOLEAN : ImproveChatSettles(ok, "c1", listening)
  \/ \E listening \in BOOLEAN : ImproveUpdateDone(listening)
  \/ \E name \in Names : CallToolBegin(name)
  \/ \E ok \in BOOLEAN : CallToolSettles(ok)
  \/ \E name \in Names : ToolCallBegin(name)
  \/ \E ok \in BOOLEAN : ToolCallSettles(ok)
  \/ JobCollect

\* the registry operations of one client, next to the test runs, maintenance
\* passes and invocations
ToolRegNext ==
  \/ AddToolBegin("c1", "a", "s1", "sch1", "t1")
  \/ \E reply \in {"s2", "throw"} : AddToolResume("c1", reply)
  \/ UpdateToolBegin("c1", "a", "s2", NoSchema, "t2")
  \/ \E ok \in BOOLEAN : UpdateToolMeta("c1", ok)
  \/ \E reply \in Harnesses \cup {"throw"}, listening \in BOOLEAN :
        UpdateToolHarness("c1", reply, listening)
  \/ UpdateToolSave("c1")
  \/ \E name \in Names : RemoveTool("c1", name)
  \/ RollbackToolBegin("c1", "a", <<1, 0, 0>>)
  \/ RollbackToolResume("c1")

\* a registry that lists unit a, with a harness, and unit b, without one
ToolsLoaded ==
  /\ tools = <<1, 2>>
  /\ \E harness \in {"h1", "h2"} :
       heap = [o \in ObjIds |->
                 IF o = 1 THEN [NewTool("a", InitialVersion, "s1", "t1", "sch1")
                                  EXCEPT !.testHarness = harness]
                 ELSE IF o = 2 THEN NewTool("b", InitialVersion, "s1", "t1", "sch1")
                 ELSE FreeSlot]
  /\ metrics = [n \in Names |-> NoMetrics]
  /\ call = [c \in Callers |-> Idle]
  /\ done = [op |-> "none"]
  /\ updatesBegun = 0
  /\ rollbacksBegun = 0

(***************************************************************************)
(* extractJson                                                             *)
(*                                                                         *)
(* A text is a sequence of characters.  The characters the scanner and     *)
(* JSON.parse tell apart are the four brackets, the double quote, the      *)
(* backslash, the colon and the comma; "1" is a digit and "a" any other    *)
(* character.  A code fence and a line break are one element each: they    *)
(* matter only to callAgent, which deletes them before the scan.           *)
(***************************************************************************)
Quote == "\""
Backslash == "\\"
Fence == "FENCE"                \* three backticks
FenceJson == "FENCEjson"        \* three backticks and the word json
Newline == "\n"
Openers == {"{", "["}
Closers == {"}", "]"}

RECURSIVE Flatten(_)
Flatten(ss) == IF ss = <<>> THEN <<>> ELSE Head(ss) \o Flatten(Tail(ss))

\* JSON.parse: a recursive-descent parser.  Each Parse* operator reads text s
\* from index i and answers [ok, val, next]: whether a value was read, the
\* value, and the index after it.
ParseFail == [ok |-> FALSE, val |-> <<>>, next |-> 0]

RECURSIVE ParseString(_, _, _)
\* the characters of a string literal after its opening quote
ParseString(s, i, acc) ==
  IF i > Len(s) THEN ParseFail
  ELSE IF s[i] = Quote THEN [ok |-> TRUE, val |-> [t |-> "str", v |-> acc], next |-> i + 1]
  ELSE IF s[i] = Backslash
       THEN IF i + 1 <= Len(s) /\ s[i + 1] \in {Quote, Backslash}
            THEN ParseString(s, i + 2, Append(acc, s[i + 1]))
            ELSE ParseFail                      \* no such escape
  ELSE IF s[i] \in {Newline} THEN ParseFail     \* a control character
  ELSE ParseString(s, i + 1, Append(acc, s[i]))

RECURSIVE ParseNumber(_, _, _)
ParseNumber(s, i, acc) ==
  IF i <= Len(s) /\ s[i] = "1" THEN ParseNumber(s, i + 1, Append(acc, s[i]))
  ELSE [ok |-> TRUE, val |-> [t |-> "num", v |-> acc], next |-> i]

RECURSIVE ParseValue(_, _)
RECURSIVE ParseElements(_, _, _)
RECURSIVE ParseMembers(_, _, _)

\* the elements of an array after an element has been announced
ParseElements(s, i, acc) ==
  LET e == ParseValue(s, i) IN
  IF ~e.ok \/ e.next > Len(s) THEN ParseFail
  ELSE IF s[e.next] = "," THEN ParseElements(s, e.next + 1, Append(acc, e.val))
  ELSE IF s[e.next] = "]"
       THEN [ok |-> TRUE, val |-> [t |-> "arr", v |-> Append(acc, e.val)], next |-> e.next + 1]
  ELSE ParseFail

\* the members of an object after a member has been announced
ParseMembers(s, i, acc) ==
  IF i > Len(s) \/ s[i] # Quote THEN ParseFail
  ELSE LET k == ParseString(s, i + 1, <<>>) IN
       IF ~k.ok \/ k.next > Len(s) \/ s[k.next] # ":" THEN ParseFail
       ELSE LET e == ParseValue(s, k.next + 1) IN
            IF ~e.ok \/ e.next > Len(s) THEN ParseFail
            ELSE IF s[e.next] = ","
                 THEN ParseMembers(s, e.next + 1, Append(acc, <<k.val.v, e.val>>))
            ELSE IF s[e.next] = "}"
                 THEN [ok |-> TRUE,
                       val |-> [t |-> "obj", v |-> Append(acc, <<k.val.v, e.val>>)],
                       next |-> e.next + 1]
            ELSE ParseFail

ParseValue(s, i) ==
  IF i > Len(s) THEN ParseFail
  ELSE IF s[i] = "1" THEN ParseNumber(s, i, <<>>)
  ELSE IF s[i] = Quote THEN ParseString(s, i + 1, <<>>)
  ELSE IF s[i] = "["
       THEN IF i + 1 <= Len(s) /\ s[i + 1] = "]"
            THEN [ok |-> TRUE, val |-> [t |-> "arr", v |-> <<>>], next |-> i + 2]
            ELSE ParseElements(s, i + 1, <<>>)
  ELSE IF s[i] = "{"
       THEN IF i + 1 <= Len(s) /\ s[i + 1] = "}"
            THEN [ok |-> TRUE, val |-> [t |-> "obj", v |-> <<>>], next |-> i + 2]
            ELSE ParseMembers(s, i + 1, <<>>)
  ELSE ParseFail

\* JSON.parse(text): the whole text must be one value
JSONparse(text) ==
  LET r == ParseValue(text, 1) IN
  IF r.ok /\ r.next = Len(text) + 1 THEN r ELSE ParseFail

\* the scanner's locals before the loop
ScanStart == [depth |-> 0, currentJson |-> <<>>, inString |-> FALSE,
              escapeNext |-> FALSE, jsonObjects |-> <<>>]

BracketsCountAlways(st) == TRUE

\* `if (!inString)`: brackets count only outside a string
BracketsCount(st) == ~st.inString

CloseCandidateKeepsText(st, text) ==
  LET parsed == JSONparse(text) IN
  [st EXCEPT !.jsonObjects = IF parsed.ok THEN Append(@, parsed.val) ELSE @,
             !.currentJson = IF parsed.ok THEN <<>> ELSE text]

\* depth is back to 0: try { push(JSON.parse(currentJson)) } catch {}; currentJson = ''
CloseCandidate(st, text) ==
  LET parsed == JSONparse(text) IN
  [st EXCEPT !.jsonObjects = IF parsed.ok THEN Append(@, parsed.val) ELSE @,
             !.currentJson = <<>>]

\* one turn of the loop, on character char
scanChar(st, char) ==
  IF st.escapeNext
  THEN [st EXCEPT !.currentJson = Append(@, char), !.escapeNext = FALSE]
  ELSE IF char = Backslash
  THEN [st EXCEPT !.currentJson = Append(@, char), !.escapeNext = TRUE]
  ELSE IF char = Quote /\ ~st.inString
  THEN [st EXCEPT !.inString = TRUE, !.currentJson = Append(@, char)]
  ELSE IF char = Quote /\ st.inString
  THEN [st EXCEPT !.inString = FALSE, !.currentJson = Append(@, char)]
  ELSE IF BracketsCount(st) /\ char \in Openers
  THEN [st EXCEPT !.currentJson = IF st.depth = 0 THEN <<char>> ELSE Append(@, char),
                  !.depth = @ + 1]
  ELSE IF BracketsCount(st) /\ char \in Closers
  THEN IF st.depth - 1 = 0
       THEN CloseCandidate([st EXCEPT !.depth = 0], Append(st.currentJson, char))
       ELSE [st EXCEPT !.depth = @ - 1, !.currentJson = Append(@, char)]
  ELSE [st EXCEPT !.currentJson = Append(@, char)]

RECURSIVE scanFrom(_, _, _)
scanFrom(st, text, i) ==
  IF i > Len(text) THEN st ELSE scanFrom(scanChar(st, text[i]), text, i + 1)

\* extractJson(content)
extractJson(text) == scanFrom(ScanStart, text, 1).jsonObjects

\* callAgent: tasks.replace(/```json/g, '').replace(/```/g, '').replace(/\n/g, '')
StripFences(text) == SelectSeq(text, LAMBDA ch : ch \notin {Fence, FenceJson, Newline})

\* callAgent: tasks = extractJson(tasks); a failure to extract leaves the text;
\* an array within the array is unwrapped
UnwrapPlan(found) ==
  IF found # <<>> /\ found[1].t = "arr" THEN found[1].v ELSE found

RecoverPlan(reply) == UnwrapPlan(extractJson(StripFences(reply)))

\* The pieces input texts are put together from.
PlainPieces == { <<"a">>, <<"a", ":", "1", ",">> }
JsonPieces ==
  { <<"{", Quote, "a", Quote, ":", "1", "}">>,                        \* {"a":1}
    <<"[", "1", ",", "{", Quote, "a", Quote, ":", Quote, "}", Quote, "}", "]">>,
                                                                      \* [1,{"a":"}"}]
    <<"[", Quote, "[", Backslash, Quote, Quote, "]">> }               \* ["[\""]
BadPieces ==
  { <<"{", "a", ":", "}">>,                                           \* {a:}
    <<"[", "1", ",", "]">> }                                          \* [1,]
StrayPieces == { <<Quote>>, <<"]">>, <<Backslash>> }
FencePieces == { <<FenceJson>>, <<Fence, Newline>> }
Pieces == PlainPieces \cup JsonPieces \cup BadPieces \cup StrayPieces \cup FencePieces

MaxPieces == 3      \* pieces in one input text

Inputs == UNION {[1..n -> Pieces] : n \in 0..MaxPieces}

JsonIdle ==
  /\ segs = <<>>
  /\ viaAgent = FALSE
  /\ content = <<>>
  /\ pos = 1
  /\ scan = ScanStart

(***************************************************************************)
(* retryOperation (assistant.ts)                                           *)
(***************************************************************************)
globalRetryLimit == 100

MaxRetriesBound == 2     \* largest maxRetries passed in
MaxFailures == 1         \* failures after which a recovering operation succeeds

Runs == {"r1", "r2"}     \* retryOperation calls that may be in flight together

\* An error message is the sequence of its words.
GlobalError == <<"Global", "retry", "limit", "exceeded.">>
OperationErrors ==
  { <<"Connection", "refused", "while", "dialing">>,
    <<"invalid", "parameter">>,
    <<"network", "read", "timeout">> }

\* String.prototype.toLowerCase, word by word
toLowerCase(text) ==
  [k \in DOMAIN text |->
     CASE text[k] = "Connection" -> "connection"
       [] text[k] = "Global" -> "global"
       [] OTHER -> text[k]]

\* String.prototype.includes
includes(text, part) ==
  \E k \in 0..(Len(text) - Len(part)) : SubSeq(text, k + 1, k + Len(part)) = part

retryableErrorMessages ==
  { <<"network", "timeout">>, <<"connection", "refused">>, <<"server", "unavailable">> }

isRetryableErrorAlways(error) == TRUE

isRetryableError(error) ==
  \E message \in retryableErrorMessages : includes(toLowerCase(error), message)

OverGlobalLimitNever(count) == FALSE

OverGlobalLimitLate(count) == count > globalRetryLimit + 1

\* `this.globalRetryCount > this.globalRetryLimit`
OverGlobalLimit(count) == count > globalRetryLimit

RetriesExhaustedNever(r) == FALSE

\* `retries >= maxRetries`
RetriesExhausted(r) == r.retries >= r.maxRetries

\* `delay * Math.pow(2, retries)`
retryDelay(delay, retries) == delay * 2^retries

\* The operation passed in: it throws `error` each time it is invoked, or, when
\* it recovers, only on its first `failures` invocations.
Operations ==
  [error : OperationErrors, recovers : {FALSE}, failures : {0}]
    \cup [error : OperationErrors, recovers : {TRUE}, failures : 1..MaxFailures]
    \cup [error : {<<"invalid", "parameter">>}, recovers : {TRUE}, failures : {0}]

Delays == {1000}

NoRun == [pc |-> "idle"]

RetryStart ==
  /\ globalRetryCount = 0
  /\ retry = [r \in Runs |-> NoRun]

\* the catch block of the loop, entered with `error`
Catch(r, error) ==
  IF RetriesExhausted(r) \/ ~isRetryableError(error)
  THEN [r EXCEPT !.pc = "returned", !.threw = TRUE, !.result = error]
  ELSE [r EXCEPT !.pc = "backoff", !.retries = @ + 1,
                 !.waits = Append(@, retryDelay(r.delay, r.retries + 1))]

\* the top of the loop up to `await this.pause(1000)`
Attempt(r, count) ==
  IF OverGlobalLimit(count) THEN Catch(r, GlobalError) ELSE [r EXCEPT !.pc = "pause"]

\* retryOperation(operation, maxRetries, delay) is called
RetryBegin(id, operation, maxRetries, delay) ==
  /\ retry[id].pc = "idle"
  /\ globalRetryCount' = globalRetryCount + 1
  /\ retry' = [retry EXCEPT ![id] =
        Attempt([pc |-> "idle", operation |-> operation, maxRetries |-> maxRetries,
                 delay |-> delay, retries |-> 0, invoked |-> 0, waits |-> <<>>,
                 threw |-> FALSE, result |-> <<>>], globalRetryCount + 1)]

\* the pause ends: `operation()` is invoked
PauseEnd(id) ==
  /\ retry[id].pc = "pause"
  /\ retry' = [retry EXCEPT ![id].pc = "operation", ![id].invoked = @ + 1]
  /\ UNCHANGED globalRetryCount

\* the operation settles: `return await operation()` or the catch block
OperationSettles(id) ==
  /\ retry[id].pc = "operation"
  /\ LET r == retry[id]
         op == r.operation
     IN retry' = [retry EXCEPT ![id] =
          IF op.recovers /\ r.invoked > op.failures
          THEN [r EXCEPT !.pc = "returned", !.result = <<"ok">>]
          ELSE Catch(r, op.error)]
  /\ UNCHANGED globalRetryCount

\* the wait before a retry ends: the loop starts over
BackoffEnd(id) ==
  /\ retry[id].pc = "backoff"
  /\ globalRetryCount' = globalRetryCount + 1
  /\ retry' = [retry EXCEPT ![id] = Attempt(retry[id], globalRetryCount + 1)]

\* the caller has its result or its error
RetryReturn(id) ==
  /\ retry[id].pc = "returned"
  /\ retry' = [retry EXCEPT ![id] = NoRun]
  /\ UNCHANGED globalRetryCount

MaxBeyond == 2     \* calls begun after the counter has passed the limit

RetryNext ==
  \/ \E id \in Runs, operation \in Operations, maxRetries \in 0..MaxRetriesBound, delay \in Delays :
       /\ globalRetryCount < globalRetryLimit + MaxBeyond
       /\ RetryBegin(id, operation, maxRetries, delay)
  \/ \E id \in Runs : PauseEnd(id)
  \/ \E id \in Runs : OperationSettles(id)
  \/ \E id \in Runs : BackoffEnd(id)
  \/ \E id \in Runs : RetryReturn(id)

(***************************************************************************)
(* callAgent and callScript (assistant.ts)                                 *)
(***************************************************************************)
retryLimit == 10         \* callScript(script, retryLimit = 10)

MaxMemories == 2         \* similar memories a lookup returns
MaxRetryLimit == 4       \* largest retryLimit passed to callScript directly

TaskObject == <<"{", Quote, "task", Quote, ":", Quote, "a", Quote, "}">>   \* {"task":"a"}

\* {"task":"t1:d","script":"s1","resultVar":"r1"}
TaskOne ==
  <<"{", Quote, "task", Quote, ":", Quote, "t1", ":", "d", Quote, ",",
         Quote, "script", Quote, ":", Quote, "s1", Quote, ",",
         Quote, "resultVar", Quote, ":", Quote, "r1", Quote, "}">>

\* {"task":"t2:d","script":"s3"}
TaskTwo ==
  <<"{", Quote, "task", Quote, ":", Quote, "t2", ":", "d", Quote, ",",
         Quote, "script", Quote, ":", Quote, "s3", Quote, "}">>

\* {"task":"t3","script":"tools.a;tools.b;tools.a"}
TaskThree ==
  <<"{", Quote, "task", Quote, ":", Quote, "t3", Quote, ",",
         Quote, "script", Quote, ":", Quote,
         "tools", ".", "a", ";", "tools", ".", "b", ";", "tools", ".", "a", Quote, "}">>

\* what the model answers to the decomposition prompt
AgentReplies ==
  { <<"[">> \o TaskThree \o <<"]">>,
    <<FenceJson, Newline, "[">> \o TaskObject \o <<"]", Newline, Fence>>,
    <<"a", "[">> \o TaskObject \o <<",">> \o TaskObject \o <<"]">>,
    <<"[">> \o TaskOne \o <<",">> \o TaskTwo \o <<"]">>,
    TaskObject,
    <<"a">>,
    <<"[", "1", "]">>,
    <<"[", "]">> }

\* `let { task: taskName } = task; taskName.split(':')` goes through
HasTaskName(task) ==
  /\ task.t = "obj"
  /\ \E k \in DOMAIN task.v : task.v[k][1] = <<"task">> /\ task.v[k][2].t = "str"

Undefined == <<"undefined">>

\* task[key] for a string member, undefined otherwise
Field(task, key) ==
  IF task.t = "obj" /\ \E k \in DOMAIN task.v : task.v[k][1] = <<key>> /\ task.v[k][2].t = "str"
  THEN LET k == CHOOSE k \in DOMAIN task.v :
                  /\ task.v[k][1] = <<key>> /\ task.v[k][2].t = "str"
                  /\ \A m \in DOMAIN task.v : task.v[m][1] = <<key>> => m <= k
       IN task.v[k][2].v
  ELSE Undefined

\* `taskName.split(':')`: taskId is the part before the first colon, if any
taskIdOf(taskName) ==
  IF \E k \in DOMAIN taskName : taskName[k] = ":"
  THEN SubSeq(taskName, 1, (CHOOSE k \in DOMAIN taskName :
                              taskName[k] = ":" /\ \A m \in 1..(k - 1) : taskName[m] # ":") - 1)
  ELSE taskName

\* the pieces of a text the class \w does not match
NonWord == {".", ";", ":", ",", " ", Quote, Backslash, Newline, Fence} \cup Openers \cup Closers

\* script.match(/tools\.(\w+)/g): where a match starts
ToolMatches(script) ==
  {k \in 1..(Len(script) - 2) :
     script[k] = "tools" /\ script[k + 1] = "." /\ script[k + 2] \notin NonWord}

\* extractUsedTools(script): the names after `tools.`, each once
extractUsedTools(script) == {script[k + 2] : k \in ToolMatches(script)}

(***************************************************************************)
(* callScript                                                              *)
(***************************************************************************)
Scripts == {<<"s1">>, <<"a">>, <<"s3">>}     \* script texts: a registered source, a
                                               \* registered name, an unregistered text

\* a registry that lists one unit, a, with source s1
RegLoaded ==
  /\ tools = <<1>>
  /\ heap = [o \in ObjIds |-> IF o = 1 THEN NewTool("a", InitialVersion, "s1", "t1", "sch1")
                              ELSE FreeSlot]
  /\ metrics = [n \in Names |-> NoMetrics]
  /\ call = [c \in Callers |-> Idle]
  /\ done = [op |-> "none"]
  /\ updatesBegun = 0
  /\ rollbacksBegun = 0

getToolNever(scriptOrName) == 0

\* ToolRegistry.getTool(scriptOrName): the unit of that name, else the first
\* unit (in the order of the `tools` getter) whose source is the text; 0 for null
getTool(scriptOrName) ==
  IF Len(scriptOrName) = 1 /\ toolsGetter(scriptOrName[1]) # 0
  THEN toolsGetter(scriptOrName[1])
  ELSE LET hits == {n \in Names : /\ toolsGetter(n) # 0
                                  /\ <<heap[toolsGetter(n)].source>> = scriptOrName}
       IN IF hits = {} THEN 0
          ELSE toolsGetter(CHOOSE n \in hits : \A m \in hits : findIndex(n) <= findIndex(m))

\* `retryCount === retryLimit/2`, the division being exact
Halfway(retryCount, limit) == retryCount * 2 = limit

\* `Script execution failed after ${retryLimit} attempts.`
ScriptFailed(limit) ==
  <<"Script", "execution", "failed", "after", ToString(limit), "attempts.">>

ReachedEnd == <<"Reached", "end", "of", "callScript", "function.">>

NoScript == [pc |-> "idle"]

\* the top of the while loop: the test, getTool, and the registered unit or
\* executeScript started
StartAttempt(c) ==
  IF c.retryCount < c.retryLimit
  THEN [c EXCEPT !.pc = "attempt", !.attempts = @ + 1,
                 !.via = IF getTool(c.script) # 0 THEN "tool" ELSE "raw"]
  ELSE [c EXCEPT !.pc = "raised", !.error = ReachedEnd]

\* callScript(script, retryLimit) is called
callScript(script, limit) ==
  StartAttempt([pc |-> "idle", script |-> script, retryLimit |-> limit, retryCount |-> 0,
                attempts |-> 0, via |-> "none", sent |-> <<>>, error |-> <<>>])

\* callScript is called directly
ScriptBegin(script, limit) ==
  /\ agent.pc = "idle" /\ cs.pc = "idle"
  /\ cs' = callScript(script, limit)
  /\ UNCHANGED <<agent, store>>

\* callScript: an attempt (the registered unit or executeScript) settles
ScriptAttemptSettles(ok) ==
  /\ cs.pc = "attempt"
  /\ cs' = IF ok THEN [cs EXCEPT !.pc = "returned"]
           ELSE IF cs.retryCount + 1 >= cs.retryLimit
                THEN [cs EXCEPT !.retryCount = @ + 1, !.pc = "raised",
                                !.error = ScriptFailed(cs.retryLimit)]
           ELSE [cs EXCEPT !.retryCount = @ + 1, !.pc = "repair",
                           !.sent = Append(@, [attempt |-> cs.retryCount + 1,
                                               halfway |-> Halfway(cs.retryCount + 1,
                                                                   cs.retryLimit)])]
  /\ UNCHANGED <<agent, store>>

Backtick == "bt"

\* unescapeTemplateLiteral(str): a backslash before a backtick (the token "bt")
\* or before the two characters that open a substitution
\* is dropped
RECURSIVE unescapeTemplateLiteral(_)
unescapeTemplateLiteral(str) ==
  IF str = <<>> THEN <<>>
  ELSE IF Len(str) >= 2 /\ str[1] = Backslash /\ str[2] \in {Backtick, "${"}
       THEN <<str[2]>> \o unescapeTemplateLiteral(SubSeq(str, 3, Len(str)))
  ELSE <<str[1]>> \o unescapeTemplateLiteral(Tail(str))

\* {"modifiedScript":"<script>","explanation":"a"}
PatchReply(script) ==
  <<"{", Quote, "modifiedScript", Quote, ":", Quote>> \o script \o
  <<Quote, ",", Quote, "explanation", Quote, ":", Quote, "a", Quote, "}">>

\* replies of the repair chat that give no patch: not JSON, no modifiedScript
\* member, a modifiedScript that is no string
BadPatchReplies ==
  { <<"a">>,
    <<"{", Quote, "explanation", Quote, ":", Quote, "a", Quote, "}">>,
    <<"{", Quote, "modifiedScript", Quote, ":", "1", "}">> }

\* what the repair chat answers: a patch to one of the scripts, once with an
\* escaped backtick in front, or no patch
RepairReplies ==
  {PatchReply(script) : script \in Scripts}
    \cup {PatchReply(<<Backslash, Backslash, Backtick, "s3">>)} \cup BadPatchReplies

\* const { modifiedScript } = JSON.parse(llmResponse.content[0].text); script =
\* this.unescapeTemplateLiteral(modifiedScript): the new script text, or
\* <<"throw">> when one of the steps throws
Patch(text) ==
  IF JSONparse(text).ok /\ Field(JSONparse(text).val, "modifiedScript") # Undefined
  THEN unescapeTemplateLiteral(Field(JSONparse(text).val, "modifiedScript"))
  ELSE <<"throw">>

\* a repair that ends the run when no patch comes back
RepairSettlesEnds(reply) ==
  /\ cs.pc = "repair"
  /\ cs' = IF reply = <<"throw">>
           THEN [cs EXCEPT !.pc = "raised", !.error = ScriptFailed(cs.retryLimit)]
           ELSE [cs EXCEPT !.pc = "wait", !.script = reply]
  /\ UNCHANGED <<agent, store>>

\* callScript: the repair chat settles with a modified script, or fails (logged
\* and dropped)
RepairSettles(reply) ==
  /\ cs.pc = "repair"
  /\ cs' = [cs EXCEPT !.pc = "wait", !.script = IF reply = <<"throw">> THEN @ ELSE reply]
  /\ UNCHANGED <<agent, store>>

\* callScript: the wait of 1000 * retryCount ends, the loop starts over
ScriptWaitEnds ==
  /\ cs.pc = "wait"
  /\ cs' = StartAttempt(cs)
  /\ UNCHANGED <<agent, store>>

\* the direct caller has the result or the error
ScriptCollect ==
  /\ agent.pc = "idle" /\ cs.pc \in {"returned", "raised"}
  /\ cs' = NoScript
  /\ UNCHANGED <<agent, store>>

ScriptNext ==
  \/ \E script \in Scripts, limit \in 0..MaxRetryLimit : ScriptBegin(script, limit)
  \/ \E ok \in BOOLEAN : ScriptAttemptSettles(ok)
  \/ \E text \in RepairReplies : RepairSettles(Patch(text))
  \/ RepairSettles(<<"throw">>)
  \/ ScriptWaitEnds
  \/ ScriptCollect

(***************************************************************************)
(* callAgent                                                               *)
(***************************************************************************)
NoAgent == [pc |-> "idle"]

EmptyStore == [k \in {} |-> [kind |-> "none", i |-> 0]]

AgentStart == agent = NoAgent /\ cs = NoScript /\ store = EmptyStore

CaughtRethrows(a, step, error) ==
  [a EXCEPT !.pc = "raised", !.failed = step, !.result = [success |-> FALSE, error |-> error]]

\* `catch (error) { return { success: false, error: error }; }`
Caught(a, step, error) ==
  [a EXCEPT !.pc = "resolved", !.failed = step, !.result = [success |-> FALSE, error |-> error]]

\* `return { success: true, data: ... }`
Resolved(a, data) ==
  [a EXCEPT !.pc = "resolved", !.result = [success |-> TRUE, data |-> data]]

CONFIDENCE_THRESHOLD == 80     \* 0.8, confidences being counted in hundredths

\* the memories a lookup may return: stored confidence, similarity, and the
\* adjusted confidence calculateRetrievalConfidence gives, in hundredths
Memories ==
  { [confidence |-> 90, similarity |-> 95, adjusted |-> 85],
    [confidence |-> 50, similarity |-> 99, adjusted |-> 60],
    [confidence |-> 99, similarity |-> 91, adjusted |-> 75] }

MemoryLists == UNION {[1..n -> Memories] : n \in 0..MaxMemories}

selectFirstMemory(memories) == 1

\* selectBestMemory: reduce keeps the earlier of two equally good memories
selectBestMemory(memories) ==
  CHOOSE b \in DOMAIN memories :
    /\ \A k \in DOMAIN memories :
         memories[k].confidence * memories[k].similarity
           <= memories[b].confidence * memories[b].similarity
    /\ \A k \in 1..(b - 1) :
         memories[k].confidence * memories[k].similarity
           < memories[b].confidence * memories[b].similarity

\* no memory record of this run yet
NoMemory == [recorded |-> FALSE]

\* an argument the call leaves out
NotGiven == {}

\* memoryStore.storeMemory(input, response, confidence): the record the index
\* keeps of a run, with the used capabilities it was handed
storeMemory(response, usedCapabilities) ==
  [recorded |-> TRUE, response |-> response, usedCapabilities |-> usedCapabilities]

ResultVars == {Undefined, <<"out">>}     \* callAgent's resultVar argument

\* this.store[key] = value
Put(st, key, value) == [k \in DOMAIN st \cup {key} |-> IF k = key THEN value ELSE st[k]]

Logged(a, e, i) == [a EXCEPT !.log = Append(@, [e |-> e, i |-> i])]

\* callAgent(input, model, resultVar) up to
\* `await this.toolRegistry.predictLikelyTools(input)`
AgentBegin(resultVar) ==
  /\ agent.pc = "idle" /\ cs.pc = "idle"
  /\ agent' = [pc |-> "predict", resultVar |-> resultVar, memories |-> <<>>, best |-> 0,
               refreshing |-> 0, tasks |-> <<>>, index |-> 0, results |-> <<>>, log |-> <<>>,
               failed |-> "none", result |-> [success |-> FALSE, error |-> "none"],
               usedTools |-> {}, stored |-> NoMemory]
  /\ UNCHANGED <<cs, store>>

\* predictLikelyTools settles; then `await this.memoryStore.findSimilarMemories(...)`
PredictSettles(ok) ==
  /\ agent.pc = "predict"
  /\ agent' = IF ok THEN [agent EXCEPT !.pc = "recall"]
              ELSE Caught(agent, "predict", "prediction failed")
  /\ UNCHANGED <<cs, store>>

\* findSimilarMemories settles with the memories `found`; then adaptMemoryToInput
\* for the best one if its adjusted confidence is above the threshold, else the
\* decomposition chat
RecallSettles(ok, found) ==
  /\ agent.pc = "recall"
  /\ agent' =
       IF ~ok THEN Caught(agent, "recall", "lookup failed")
       ELSE IF found # <<>> /\ found[selectBestMemory(found)].adjusted > CONFIDENCE_THRESHOLD
            THEN Logged([agent EXCEPT !.pc = "adapt", !.memories = found,
                                      !.best = selectBestMemory(found)], "adaptCall", 0)
       ELSE Logged([agent EXCEPT !.pc = "decompose", !.memories = found], "decomposeCall", 0)
  /\ UNCHANGED <<cs, store>>

\* adaptMemoryToInput settles; then `await this.updateMemoryConfidence(bestMemory)`
AdaptSettles(ok) ==
  /\ agent.pc = "adapt"
  /\ agent' = IF ok THEN Logged([agent EXCEPT !.pc = "boost"], "boost", agent.best)
              ELSE Caught(agent, "adapt", "adaptation failed")
  /\ UNCHANGED <<cs, store>>

\* updateMemoryConfidence(bestMemory) settles; `return { success: true, data: adaptedResponse }`
BoostSettles(ok) ==
  /\ agent.pc = "boost"
  /\ agent' = IF ok THEN Resolved(agent, [kind |-> "adapted", results |-> <<>>])
              ELSE Caught(agent, "boost", "update failed")
  /\ UNCHANGED <<cs, store>>

\* after the last task: `await this.memoryStore.storeMemory(...)`;
\* before it, the next task up to `await this.callScript(script)`
NextTaskStoresEarly(a) == Logged([a EXCEPT !.pc = "store"], "storeMemory", 0)

NextTask(a) ==
  IF a.index >= Len(a.tasks) THEN Logged([a EXCEPT !.pc = "store"], "storeMemory", 0)
  ELSE IF ~HasTaskName(a.tasks[a.index + 1])
       THEN Caught([a EXCEPT !.index = @ + 1], "task", "TypeError")
  ELSE Logged([a EXCEPT !.index = @ + 1, !.pc = "script"], "scriptStart", a.index + 1)

\* the store writes of a task before its script is called
BeforeScript(st, task, i) ==
  LET taskId == taskIdOf(Field(task, "task"))
      s1 == Put(st, <<"currentTaskId">>, [kind |-> "taskId", i |-> i])
      s2 == Put(s1, taskId \o <<"_task">>, [kind |-> "task", i |-> i])
      s3 == Put(s2, taskId \o <<"_chat">>, [kind |-> "chat", i |-> i])
  IN Put(s3, taskId \o <<"_script">>, [kind |-> "script", i |-> i])

\* the store writes of a task after its script has returned
AfterScript(st, task, i) ==
  LET taskId == taskIdOf(Field(task, "task"))
  IN Put(Put(st, taskId \o <<"_result">>, [kind |-> "result", i |-> i]),
         taskId \o <<"_results">>, [kind |-> "result", i |-> i])

\* the task loop moves on from agent record a and store st
Advance(a, st) ==
  /\ agent' = NextTask(a)
  /\ IF NextTask(a).pc = "script"
     THEN /\ cs' = callScript(Field(a.tasks[a.index + 1], "script"), retryLimit)
          /\ store' = BeforeScript(st, a.tasks[a.index + 1], a.index + 1)
     ELSE /\ cs' = NoScript
          /\ store' = st

\* the decomposition chat settles: strip the fences, extractJson, check, store
\* the plan, unwrap, and the task loop up to its first await
DecomposeSettles(ok, reply) ==
  /\ agent.pc = "decompose"
  /\ IF ~ok
     THEN agent' = Caught(agent, "decompose", "chat failed") /\ UNCHANGED <<cs, store>>
     ELSE IF extractJson(StripFences(reply)) = <<>>
     THEN /\ agent' = Caught(agent, "recover", "The task must be an array of subtasks.")
          /\ UNCHANGED <<cs, store>>
     ELSE LET s1 == Put(store, <<"input">>, [kind |-> "tasks", i |-> 0])
              s2 == IF agent.resultVar # Undefined
                    THEN Put(s1, agent.resultVar, [kind |-> "results", i |-> 0]) ELSE s1
          IN Advance([agent EXCEPT !.tasks = RecoverPlan(reply)], s2)

PushFront(results, rout) == <<rout>> \o results

\* results.push(rout)
Push(results, rout) == Append(results, rout)

\* callScript has returned or raised: the result is stored, announced and pushed
\* and the loop moves on, or the catch block is entered
ScriptReturns ==
  /\ agent.pc = "script" /\ cs.pc \in {"returned", "raised"}
  /\ IF cs.pc = "raised"
     THEN /\ agent' = Caught(agent, "script",
                             IF cs.error = ScriptFailed(retryLimit)
                             THEN "Script execution failed after 10 attempts."
                             ELSE "Reached end of callScript function.")
          /\ cs' = NoScript
          /\ UNCHANGED store
     ELSE IF Field(agent.tasks[agent.index], "script") = Undefined
     THEN /\ agent' = Caught(agent, "usedTools", "TypeError")    \* script.match of undefined
          /\ cs' = NoScript
          /\ UNCHANGED store
     ELSE LET task == agent.tasks[agent.index]
              rout == [id |-> taskIdOf(Field(task, "task")), i |-> agent.index]
              used == extractUsedTools(Field(task, "script"))
              a1 == Logged(Logged([agent EXCEPT !.results = Push(@, rout),
                                                !.usedTools = @ \cup used],
                                  "resultStored", agent.index), "emitResults", agent.index)
          IN Advance(a1, AfterScript(store, task, agent.index))

\* after storeMemory: one updateMemoryConfidence per similar memory, then
\* store[resultVar] = results, optimizeScripts (not awaited) and
\* `return { success: true, data: results }`
NextRefresh(a, k) ==
  IF k <= Len(a.memories) THEN Logged([a EXCEPT !.pc = "refresh", !.refreshing = k], "refresh", k)
  ELSE Resolved(a, [kind |-> "results", results |-> a.results])

FinalStore(a, st) ==
  IF a.pc = "resolved" /\ a.result.success /\ a.resultVar # Undefined
  THEN Put(st, a.resultVar, [kind |-> "results", i |-> 0]) ELSE st

\* storeMemory settles
StoreSettles(ok) ==
  /\ agent.pc = "store"
  /\ agent' = IF ok THEN NextRefresh([agent EXCEPT !.stored = storeMemory(agent.tasks, NotGiven)], 1)
              ELSE Caught(agent, "store", "store failed")
  /\ store' = FinalStore(agent', store)
  /\ UNCHANGED cs

\* updateMemoryConfidence(memory) settles
RefreshSettles(ok) ==
  /\ agent.pc = "refresh"
  /\ agent' = IF ok THEN NextRefresh(agent, agent.refreshing + 1)
              ELSE Caught(agent, "refresh", "update failed")
  /\ store' = FinalStore(agent', store)
  /\ UNCHANGED cs

\* the caller has the result
AgentReturn ==
  /\ agent.pc = "resolved"
  /\ agent' = NoAgent
  /\ UNCHANGED <<cs, store>>

AgentNext ==
  \/ \E resultVar \in ResultVars : AgentBegin(resultVar)
  \/ \E ok \in BOOLEAN : PredictSettles(ok)
  \/ \E ok \in BOOLEAN, found \in MemoryLists : RecallSettles(ok, found)
  \/ \E ok \in BOOLEAN : AdaptSettles(ok)
  \/ \E ok \in BOOLEAN : BoostSettles(ok)
  \/ \E ok \in BOOLEAN, reply \in AgentReplies : DecomposeSettles(ok, reply)
  \/ \E ok \in BOOLEAN : ScriptAttemptSettles(ok)
  \/ \E text \in RepairReplies : RepairSettles(Patch(text))
  \/ RepairSettles(<<"throw">>)
  \/ ScriptWaitEnds
  \/ ScriptReturns
  \/ \E ok \in BOOLEAN : StoreSettles(ok)
  \/ \E ok \in BOOLEAN : RefreshSettles(ok)
  \/ AgentReturn

(***************************************************************************)
(* callLLM                                                                 *)
(***************************************************************************)
NoExecute == [pc |-> "idle"]

LLMStart == llm = NoExecute

\* the parameters of one call: '' stands for a missing (falsy) member
Prompts == {"", "p"}
Models == {"", "claude", "gemini", "gpt"}
ResponseFormats == {"", "obj", "arr"}     \* no hint, an object type, an array type
LLMResultVars == {"", "out"}

Params == [prompt : Prompts, model : Models, responseFormat : ResponseFormats,
           resultVar : LLMResultVars]

MissingPrompt == "Both 'prompt' and 'system_prompt' are required parameters for the 'callLLM' tool."
InvalidModel == "Invalid model specified. Choose either 'claude' or 'gemini'."

\* the checks before the conversation is opened: the error thrown, or "none"
ValidationError(param) ==
  IF param.prompt = "" THEN MissingPrompt
  ELSE IF (IF param.model = "" THEN "claude" ELSE param.model) \notin {"claude", "gemini"}
       THEN InvalidModel
  ELSE "none"

\* what the model may answer
LLMReplies ==
  { <<Newline, "{", Quote, "a", Quote, ":", Quote, "b", Quote, "}", " ">>,
    <<"[", "1", "]">>,
    <<" ", "a">>,
    <<"{", Quote, "a", Quote>> }

Whitespace == {" ", Newline}

\* String.prototype.trim
trim(text) ==
  LET ks == {k \in DOMAIN text : text[k] \notin Whitespace} IN
  IF ks = {} THEN <<>>
  ELSE SubSeq(text, CHOOSE k \in ks : \A m \in ks : k <= m,
                    CHOOSE k \in ks : \A m \in ks : m <= k)

\* jsonValidator(responseFormat, data): the reply is JSON of the hinted type
jsonValidator(responseFormat, data) ==
  JSONparse(data).ok /\ JSONparse(data).val.t = responseFormat

\* the values execute hands out: the reply text, or the value parsed from it
Raw(data) == [kind |-> "text", text |-> data]
Parsed(data) == [kind |-> "json", text |-> data]
Nothing == [kind |-> "none", text |-> <<>>]

\* `if (resultVar) { api.store[resultVar] = value; } return value;`
Return_(l, value) ==
  [l EXCEPT !.pc = "returned", !.result = value,
            !.stored = IF l.param.resultVar # "" THEN value ELSE @]

\* the outer catch block up to `await api.callTool('callLLM', ...)`
OuterCatch(l, error) ==
  [l EXCEPT !.pc = "fixing", !.error = error, !.reinvoked = @ + 1]

\* execute(params, api) for the first element of params, up to `await convo.chat`
ExecuteBegin(param) ==
  /\ llm.pc = "idle"
  /\ LET l == [pc |-> "chat", param |-> param, error |-> "none", chats |-> 0,
               reinvoked |-> 0, emitted |-> FALSE, replied |-> FALSE, reply |-> <<>>,
               stored |-> Nothing, result |-> Nothing]
     IN llm' = IF ValidationError(param) # "none" THEN OuterCatch(l, ValidationError(param))
               ELSE [l EXCEPT !.chats = 1]

\* the conversation settles: the reply is trimmed, validated and parsed when a
\* format was asked for, stored and returned
ChatSettles(ok, reply, listening) ==
  /\ llm.pc = "chat"
  /\ IF ~ok THEN llm' = OuterCatch(llm, "chat failed")
     ELSE LET data == trim(reply)
              l == [llm EXCEPT !.replied = TRUE, !.reply = reply]
          IN llm' = IF llm.param.responseFormat = "" THEN Return_(l, Raw(data))
                    ELSE IF jsonValidator(llm.param.responseFormat, data) /\ JSONparse(data).ok
                    THEN Return_(l, Parsed(data))
                    ELSE IF emitError(listening)
                    THEN Return_([l EXCEPT !.emitted = TRUE], Raw(data))
                    ELSE OuterCatch(l, "Unhandled error.")

\* what `api.callTool('callLLM', ...)` comes back with: a text, an object
\* with a fix member, or an exception
FixAnswers == {"text", "fix", "throw"}

\* `if (llmResponse.fix) return llmResponse.fix; throw error;`
FixSettles(answer) ==
  /\ llm.pc = "fixing"
  /\ llm' = IF answer = "throw" THEN [llm EXCEPT !.pc = "raised", !.error = "callTool failed"]
            ELSE IF answer = "fix"
            THEN [llm EXCEPT !.pc = "returned", !.chats = @ + 1,
                             !.result = [kind |-> "fix", text |-> <<>>]]
            ELSE [llm EXCEPT !.pc = "raised", !.chats = @ + 1]

\* the caller has the outcome
ExecuteCollect ==
  /\ llm.pc \in {"returned", "raised"}
  /\ llm' = NoExecute

LLMNext ==
  \/ \E param \in Params : ExecuteBegin(param)
  \/ \E ok \in BOOLEAN, reply \in LLMReplies, listening \in BOOLEAN :
       ChatSettles(ok, reply, listening)
  \/ \E answer \in FixAnswers : FixSettles(answer)
  \/ ExecuteCollect

(***************************************************************************)
(* prepareContext, executeScript and the scripts of a run                  *)
(***************************************************************************)
MaxScriptSteps == 2     \* writes and invocations one script makes before it returns

NoRunContext == [pc |-> "idle"]

ContextStart == run = NoRunContext

ImportedNames == {"ask"}                \* the tools of the imported tools module
Values == {"v1", "v2"}                   \* what scripts write and modules return
Requests == {"q", "a"}                   \* request texts: the second is a unit's name
TaskIds == <<"t1", "t2">>                \* the subtasks of the plan, in order
WriteKeys == {"x_results", "t1_results"} \* the taskResults members scripts assign

\* this.store[key] = value
PutKey(st, key, value) == [k \in DOMAIN st \cup {key} |-> IF k = key THEN value ELSE st[k]]

Stored(v) == [kind |-> "value", of |-> v]
Builtin(key) == [kind |-> "builtin", of |-> key]
RegistryTool(name) == [kind |-> "registry", of |-> name]
ImportedTool(name) == [kind |-> "imported", of |-> name]

BuiltinKeys == {"tools", "taskResults", "console", "require", "fs", "path", "axios", "_"}

\* Object.keys(this.toolRegistry.tools)
RegisteredNames == {n \in Names : NameTaken(n)}

\* f with the members of g assigned over it
Assigned(f, g) == [k \in DOMAIN f \cup DOMAIN g |-> IF k \in DOMAIN g THEN g[k] ELSE f[k]]

\* prepareContext(): the literal, then the registry's tools, then the imported
\* tools, then every key of the store, each loop assigning context[key]
prepareContext(st) ==
  LET literal == [k \in BuiltinKeys |-> Builtin(k)]
      registry == [n \in RegisteredNames |-> RegistryTool(n)]
      imported == [n \in ImportedNames |-> ImportedTool(n)]
  IN [tools |-> Assigned(registry, imported),
      taskResults |-> st,
      top |-> Assigned(Assigned(Assigned(literal, registry), imported), st)]

\* ToolRegistry.callTool(name, params): the module's result is kept in a local
\* and the function ends without a return statement
callToolResult(moduleResult) == "undefined"

\* what the bound function gives the script: `return await
\* this.toolRegistry.callTool(toolName, args)`, `return await tool.execute(...)`
Yield(binding, moduleResult) ==
  IF binding.kind = "registry" THEN callToolResult(moduleResult) ELSE moduleResult

\* the store writes of task k before its script is called, then callScript:
\* prepareContext() and executeScript
StartScript(r, k) ==
  LET id == TaskIds[k]
      s1 == PutKey(r.store, "currentTaskId", Stored(id))
      s2 == PutKey(PutKey(PutKey(s1, id \o "_task", Stored("task")),
                          id \o "_chat", Stored("chat")), id \o "_script", Stored("script"))
  IN [r EXCEPT !.pc = "running", !.k = k, !.store = s2, !.context = prepareContext(s2),
               !.steps = 0, !.invoked = FALSE]

\* callAgent(input, model, resultVar) with a plan of two subtasks, up to the
\* first script: this.store[input] = tasks, this.store[resultVar] = results
ContextBegin(input, resultVar) ==
  /\ run.pc = "idle"
  /\ LET s1 == PutKey([k \in {} |-> Stored("")], input, Stored("tasks"))
         s2 == IF resultVar # "" THEN PutKey(s1, resultVar, Stored("results")) ELSE s1
     IN run' = StartScript([pc |-> "idle", k |-> 0, store |-> s2, context |-> prepareContext(s2),
                            steps |-> 0, written |-> [k \in {} |-> ""], pending |-> [k \in {} |-> ""],
                            invoked |-> FALSE, binding |-> Builtin(""), returned |-> "",
                            yielded |-> ""], 1)

\* the script in flight runs `taskResults.key = v`: `taskResults` is resolved in
\* the context (with (context)), and the member is assigned on what it names
ScriptWrites(key, v) ==
  /\ run.pc = "running" /\ run.steps < MaxScriptSteps
  /\ run' = IF run.context.top["taskResults"].kind = "builtin"
            THEN [run EXCEPT !.steps = @ + 1,
                             !.context.taskResults = PutKey(@, key, Stored(v)),
                             !.pending = PutKey(@, key, v)]
            ELSE [run EXCEPT !.steps = @ + 1]     \* a member set on a stored value

\* the script in flight calls `name(...)` (top) or `tools.name(...)`, and the
\* capability's module returns `moduleResult`
ScriptInvokes(viaTools, name, moduleResult) ==
  /\ run.pc = "running" /\ run.steps < MaxScriptSteps
  /\ IF viaTools
     THEN /\ run.context.top["tools"].kind = "builtin"
          /\ name \in DOMAIN run.context.tools
     ELSE name \in DOMAIN run.context.top
  /\ LET binding == IF viaTools THEN run.context.tools[name] ELSE run.context.top[name]
     IN run' = IF binding.kind \in {"registry", "imported"}
               THEN [run EXCEPT !.steps = @ + 1, !.invoked = TRUE, !.binding = binding,
                                !.returned = moduleResult,
                                !.yielded = Yield(binding, moduleResult)]
               ELSE [run EXCEPT !.pc = "failed"]    \* TypeError: not a function

\* the script returns sr: store[taskId_result] = store[taskId_results] = sr, and
\* the next task starts or the run ends
ScriptEnds(sr) ==
  /\ run.pc = "running"
  /\ LET id == TaskIds[run.k]
         st == PutKey(PutKey(run.store, id \o "_result", Stored(sr)),
                      id \o "_results", Stored(sr))
         r == [run EXCEPT !.store = st, !.written = Assigned(@, run.pending)]
     IN run' = IF run.k < Len(TaskIds) THEN StartScript(r, run.k + 1)
               ELSE [r EXCEPT !.pc = "done"]

\* the caller has the result
ContextCollect ==
  /\ run.pc \in {"done", "failed"}
  /\ run' = NoRunContext

ContextNext ==
  \/ \E input \in Requests, resultVar \in {"", "out"} : ContextBegin(input, resultVar)
  \/ \E key \in WriteKeys, v \in Values : ScriptWrites(key, v)
  \/ \E viaTools \in BOOLEAN, name \in Names \cup ImportedNames, moduleResult \in Values :
       ScriptInvokes(viaTools, name, moduleResult)
  \/ \E sr \in Values : ScriptEnds(sr)
  \/ ContextCollect

(***************************************************************************)
(* Assistant.callTool and ToolRegistry.loadTool                            *)
(***************************************************************************)
MaxCalls == 3         \* callTool calls begun in one run

DispatchStart == dispatch = [pc |-> "idle", loadedTools |-> {}, calls |-> 0]

DispatchNames == Names \cup {"c"}     \* the names callTool is called with: c is no unit's name

\* `Tool '${toolName}' not found.`
NotFound(toolName) == <<"Tool", toolName, "not", "found.">>

\* what registry.callTool may throw: a retryable and a non-retryable error
CallErrors == {<<"network", "timeout">>, <<"invalid", "parameter">>}

\* loadTool(name): null when the name is in loadedTools already, when no unit
\* has the name, or when the import throws; else the name is added to
\* loadedTools and the module's default export is returned
loadToolFinds(loadedTools, name, importOk) ==
  name \notin loadedTools /\ name \in Names /\ NameTaken(name) /\ importOk

\* the catch block of retryOperation for a call of callTool (maxRetries 3)
DispatchCatch(d, error) ==
  IF d.retries >= 3 \/ ~isRetryableError(error)
  THEN [d EXCEPT !.pc = "raised", !.error = error]
  ELSE [d EXCEPT !.pc = "load", !.retries = @ + 1]

\* callTool(toolName, params) is called: retryOperation starts the operation,
\* which awaits loadTool (the shared retry counter is below its ceiling)
DispatchBegin(name) ==
  /\ dispatch.pc = "idle" /\ dispatch.calls < MaxCalls
  /\ dispatch' = [pc |-> "load", loadedTools |-> dispatch.loadedTools,
                  calls |-> dispatch.calls + 1, name |-> name, retries |-> 0,
                  dispatched |-> 0, importOk |-> TRUE, error |-> <<>>]

\* loadTool settles: `if (!tool) throw new Error(...)`, else registry.callTool
LoadSettles(importOk) ==
  /\ dispatch.pc = "load"
  /\ LET d == [dispatch EXCEPT !.importOk = @ /\ importOk] IN
     dispatch' =
       IF loadToolFinds(d.loadedTools, d.name, importOk)
       THEN [d EXCEPT !.pc = "call", !.loadedTools = @ \cup {d.name}, !.dispatched = @ + 1]
       ELSE DispatchCatch(d, NotFound(d.name))

\* registry.callTool settles
DispatchSettles(ok, error) ==
  /\ dispatch.pc = "call"
  /\ dispatch' = IF ok THEN [dispatch EXCEPT !.pc = "returned"]
                 ELSE DispatchCatch(dispatch, error)

\* the caller has the result or the error
DispatchCollect ==
  /\ dispatch.pc \in {"returned", "raised"}
  /\ dispatch' = [pc |-> "idle", loadedTools |-> dispatch.loadedTools, calls |-> dispatch.calls]

DispatchNext ==
  \/ \E name \in DispatchNames : DispatchBegin(name)
  \/ \E importOk \in BOOLEAN : LoadSettles(importOk)
  \/ \E ok \in BOOLEAN, error \in CallErrors : DispatchSettles(ok, error)
  \/ DispatchCollect

RegInit == RegStart /\ JsonIdle /\ RetryStart /\ AgentStart /\ ToolStart /\ LLMStart /\ ContextStart /\ DispatchStart

RetryInit == RetryStart /\ RegStart /\ JsonIdle /\ AgentStart /\ ToolStart /\ LLMStart /\ ContextStart /\ DispatchStart

AgentInit == AgentStart /\ RegLoaded /\ JsonIdle /\ RetryStart /\ ToolStart /\ LLMStart /\ ContextStart /\ DispatchStart

ScriptInit == AgentStart /\ RegLoaded /\ JsonIdle /\ RetryStart /\ ToolStart /\ LLMStart /\ ContextStart /\ DispatchStart

SpecAgent == AgentInit /\ [][AgentNext /\ UNCHANGED <<regVars, jsonVars, retryVars, toolVars, llmVars, ctxVars, dispVars>>]_vars

SpecScript == ScriptInit /\ [][ScriptNext /\ UNCHANGED <<regVars, jsonVars, retryVars, toolVars, llmVars, ctxVars, dispVars>>]_vars

SpecRetry == RetryInit /\ [][RetryNext /\ UNCHANGED <<regVars, jsonVars, agentVars, toolVars, llmVars, ctxVars, dispVars>>]_vars

\* extractJson is entered with a text, directly or from callAgent
ExtractInit ==
  /\ segs \in Inputs
  /\ viaAgent \in BOOLEAN
  /\ content = IF viaAgent THEN StripFences(Flatten(segs)) ELSE Flatten(segs)
  /\ pos = 1
  /\ scan = ScanStart
  /\ RegStart /\ RetryStart /\ AgentStart /\ ToolStart /\ LLMStart /\ ContextStart /\ DispatchStart

\* one turn of the for loop
ExtractStep ==
  /\ pos <= Len(content)
  /\ scan' = scanChar(scan, content[pos])
  /\ pos' = pos + 1
  /\ UNCHANGED <<segs, viaAgent, content>>

ExtractNext == ExtractStep

SpecExtract == ExtractInit /\ [][ExtractNext /\ UNCHANGED <<regVars, retryVars, agentVars, toolVars, llmVars, ctxVars, dispVars>>]_vars

ToolInit == ToolStart /\ ToolsLoaded /\ JsonIdle /\ RetryStart /\ AgentStart /\ LLMStart /\ ContextStart /\ DispatchStart

\* the updateTool that improveTool started goes on
ImproveUpdateNext ==
  \/ \E ok \in BOOLEAN : UpdateToolMeta("c1", ok)
  \/ \E reply \in Harnesses \cup {"throw"}, listening \in BOOLEAN :
        UpdateToolHarness("c1", reply, listening)
  \/ UpdateToolSave("c1")

SpecTool ==
  ToolInit /\ [][(ToolNext \/ (ImproveUpdateNext /\ UNCHANGED toolVars))
                   /\ UNCHANGED <<jsonVars, retryVars, agentVars, llmVars, ctxVars, dispVars>>]_vars

\* the operations that write the registry's metrics table
MetricsNext ==
  \/ ToolRegNext /\ UNCHANGED toolVars
  \/ \E o \in ObjIds, listening \in BOOLEAN : RunTestsBegin(o, listening)
  \/ \E ok \in BOOLEAN, listening \in BOOLEAN : StepSettles(ok, listening)
  \/ \E name \in Names : CallToolBegin(name)
  \/ \E ok \in BOOLEAN : CallToolSettles(ok)
  \/ \E name \in Names : ToolCallBegin(name)
  \/ \E ok \in BOOLEAN : ToolCallSettles(ok)
  \/ JobCollect

SpecMetrics ==
  ToolInit /\ [][MetricsNext /\ UNCHANGED <<jsonVars, retryVars, agentVars, llmVars, ctxVars, dispVars>>]_vars

MaxSequence == 3      \* updateTool and rollbackTool calls of one caller, one after another

\* an empty registry, and one caller with MaxSequence updates and rollbacks
\* ahead of it: the count of calls begun starts that far below its cap
VersionsInit ==
  /\ tools = <<>>
  /\ heap = [o \in ObjIds |-> FreeSlot]
  /\ metrics = [n \in Names |-> NoMetrics]
  /\ call = [c \in Callers |-> Idle]
  /\ done = [op |-> "none"]
  /\ updatesBegun = MaxUpdates - MaxSequence
  /\ rollbacksBegun = 0
  /\ JsonIdle /\ RetryStart /\ AgentStart /\ ToolStart /\ LLMStart /\ ContextStart /\ DispatchStart

\* addTool, updateTool and rollbackTool on unit a, each awaited by its caller
VersionsNext ==
  \/ AddToolBegin("c1", "a", "s1", "sch1", "t1")
  \/ \E reply \in {"s2", "throw"} : AddToolResume("c1", reply)
  \/ \E source \in UpdSources \cup {NoSource}, schema \in UpdSchemas \cup {NoSchema} :
        UpdateToolBegin("c1", "a", source, schema, "t2")
  \/ \E ok \in BOOLEAN : UpdateToolMeta("c1", ok)
  \/ \E reply \in Harnesses \cup {"throw"}, listening \in BOOLEAN :
        UpdateToolHarness("c1", reply, listening)
  \/ UpdateToolSave("c1")
  \/ \E version \in RollbackVersions : RollbackToolBegin("c1", "a", version)
  \/ RollbackToolResume("c1")

SpecVersions ==
  VersionsInit /\ [][VersionsNext /\ UNCHANGED <<jsonVars, retryVars, agentVars, toolVars, llmVars, ctxVars, dispVars>>]_vars

LLMInit == LLMStart /\ ContextStart /\ DispatchStart /\ RegStart /\ JsonIdle /\ RetryStart /\ AgentStart /\ ToolStart

SpecLLM == LLMInit /\ [][LLMNext /\ UNCHANGED <<regVars, jsonVars, retryVars, agentVars, toolVars, ctxVars, dispVars>>]_vars

ContextInit == ContextStart /\ DispatchStart /\ RegLoaded /\ JsonIdle /\ RetryStart /\ AgentStart /\ ToolStart /\ LLMStart

SpecContext == ContextInit /\ [][ContextNext /\ UNCHANGED <<regVars, jsonVars, retryVars, agentVars, toolVars, llmVars, dispVars>>]_vars

DispatchInit == DispatchStart /\ ContextStart /\ ToolsLoaded /\ JsonIdle /\ RetryStart /\ AgentStart /\ ToolStart /\ LLMStart

SpecDispatch == DispatchInit /\ [][DispatchNext /\ UNCHANGED <<regVars, jsonVars, retryVars, agentVars, toolVars, llmVars, ctxVars>>]_vars

SpecRegistry == RegInit /\ [][RegNext /\ UNCHANGED <<jsonVars, retryVars, agentVars, toolVars, llmVars, ctxVars, dispVars>>]_vars

(***************************************************************************)
(* Claims about extractJson                                                *)
(***************************************************************************)
Brackets == Openers \cup Closers

\* prose: a text with no bracket, no double quote and no backslash
IsPlain(seg) == \A k \in DOMAIN seg : seg[k] \notin Brackets \cup {Quote, Backslash}

\* the text of one well-formed JSON object or array
IsJsonValue(seg) == seg # <<>> /\ seg[1] \in Openers /\ JSONparse(seg).ok

\* brackets opened minus brackets closed in seg[1..k]
BracketDepth(seg, k) ==
  Cardinality({j \in 1..k : seg[j] \in Openers}) - Cardinality({j \in 1..k : seg[j] \in Closers})

\* a candidate without strings whose brackets balance at its last character and
\* that is not JSON
IsBadCandidate(seg) ==
  /\ seg # <<>> /\ seg[1] \in Openers
  /\ \A k \in DOMAIN seg : seg[k] \notin {Quote, Backslash}
  /\ \A k \in 1..(Len(seg) - 1) : BracketDepth(seg, k) > 0
  /\ BracketDepth(seg, Len(seg)) = 0
  /\ ~JSONparse(seg).ok

RECURSIVE ValuesOf(_)
\* the values of the well-formed pieces, left to right
ValuesOf(ss) ==
  IF ss = <<>> THEN <<>>
  ELSE (IF IsJsonValue(Head(ss)) THEN <<JSONparse(Head(ss)).val>> ELSE <<>>) \o ValuesOf(Tail(ss))

ScanEnded == pos > Len(content)

\* C4: a bracket read while inside a double-quoted string leaves depth alone;
\* and for a text made of prose pieces and well-formed JSON objects and arrays
\* only, the result is exactly those values, left to right.
C4_StringsShieldBrackets ==
  [][pos' = pos + 1 =>
       /\ (scan.inString /\ content[pos] \in Brackets) => scan'.depth = scan.depth
       /\ (pos' > Len(content) /\ \A k \in DOMAIN segs : IsPlain(segs[k]) \/ IsJsonValue(segs[k]))
             => scan'.jsonObjects = ValuesOf(segs)
    ]_vars

\* a scan has ended on prose, then {"a":1}, then an array with "}" in a string
C4_Witness ==
  /\ ScanEnded
  /\ Len(segs) = 3 /\ IsPlain(segs[1])
  /\ segs[3] = <<"[", "1", ",", "{", Quote, "a", Quote, ":", Quote, "}", Quote, "}", "]">>
  /\ Len(scan.jsonObjects) = 2
  /\ scan.jsonObjects[2].v[2].v[1][2].v = <<"}">>

\* C5: when the brackets of a candidate balance and it is not JSON, the step that
\* closes it adds nothing to the result and leaves depth 0, an empty capture
\* buffer and no open string; and a text made of prose, well-formed values and
\* such candidates yields exactly the well-formed values.
C5_BadCandidateDropped ==
  [][pos' = pos + 1 =>
       /\ ( /\ ~scan.escapeNext /\ ~scan.inString /\ scan.depth = 1
            /\ content[pos] \in Closers
            /\ ~JSONparse(Append(scan.currentJson, content[pos])).ok )
            => /\ scan'.jsonObjects = scan.jsonObjects
               /\ scan'.depth = 0 /\ scan'.currentJson = <<>>
               /\ ~scan'.inString /\ ~scan'.escapeNext
       /\ ( /\ pos' > Len(content)
            /\ \A k \in DOMAIN segs :
                  IsPlain(segs[k]) \/ IsJsonValue(segs[k]) \/ IsBadCandidate(segs[k]) )
            => scan'.jsonObjects = ValuesOf(segs)
    ]_vars

\* a scan has ended on {a:} followed by a well-formed value, which it extracted
C5_Witness ==
  /\ ScanEnded
  /\ Len(segs) >= 2 /\ segs[1] = <<"{", "a", ":", "}">> /\ IsJsonValue(segs[Len(segs)])
  /\ scan.jsonObjects = ValuesOf(segs)
  /\ scan.jsonObjects # <<>>

\* C6: a model reply that is one well-formed JSON array with commentary before
\* and after it (commentary: any text that opens no bracket) is recovered by
\* callAgent as that array.
C6_ArrayRecoveredFromCommentary ==
  (/\ viaAgent /\ ScanEnded
   /\ \E k \in DOMAIN segs :
        /\ IsJsonValue(segs[k]) /\ segs[k][1] = "["
        /\ \A j \in DOMAIN segs \ {k} : \A m \in DOMAIN segs[j] : segs[j][m] \notin Openers)
  => \E k \in DOMAIN segs :
        IsJsonValue(segs[k]) /\ UnwrapPlan(scan.jsonObjects) = JSONparse(segs[k]).val.v

(***************************************************************************)
(* Claims about retryOperation                                             *)
(***************************************************************************)
\* of the messages operations throw, the one with a retryable substring
TransientErrors == { <<"Connection", "refused", "while", "dialing">> }

AlwaysFailsWith(r, errors) == r.pc # "idle" /\ ~r.operation.recovers /\ r.operation.error \in errors

\* C7: an operation that always fails with a retryable message is invoked again
\* at most maxRetries times after its first invocation, and the call then ends
\* by raising: the operation's error once all maxRetries retries are used up,
\* the global-limit error if the shared counter cut it short; the wait before the
\* k-th retry is delay * 2^k, each longer than the one before.
C7_RetryableBackoff ==
  \A id \in Runs :
    LET r == retry[id] IN
    AlwaysFailsWith(r, TransientErrors) =>
      /\ r.invoked <= r.maxRetries + 1
      /\ r.retries <= r.maxRetries
      /\ Len(r.waits) = r.retries
      /\ \A k \in DOMAIN r.waits : r.waits[k] = r.delay * 2^k
      /\ \A k \in DOMAIN r.waits : k > 1 => r.waits[k] > r.waits[k - 1]
      /\ r.pc = "returned" =>
            /\ r.threw
            /\ \/ r.result = r.operation.error /\ r.invoked = r.maxRetries + 1
               \/ r.result = GlobalError /\ r.invoked <= r.maxRetries

\* a call with maxRetries 2 has invoked its operation three times, waited
\* 2000 then 4000, and raised the operation's error
C7_Witness ==
  \E id \in Runs :
    /\ AlwaysFailsWith(retry[id], TransientErrors)
    /\ retry[id].pc = "returned" /\ retry[id].maxRetries = 2 /\ retry[id].invoked = 3
    /\ retry[id].waits = <<2000, 4000>>
    /\ retry[id].result = <<"Connection", "refused", "while", "dialing">>

FatalErrors == { <<"invalid", "parameter">>, <<"network", "read", "timeout">> }

\* C8 as stated: an operation whose error has no retryable substring is invoked
\* exactly once and that error is what the call raises, whatever maxRetries is.
C8_NonRetryableOnce ==
  \A id \in Runs :
    (AlwaysFailsWith(retry[id], FatalErrors) /\ retry[id].pc = "returned")
      => /\ retry[id].invoked = 1
         /\ retry[id].threw /\ retry[id].result = retry[id].operation.error

\* C8, amended: such an operation is never invoked twice and never waited for;
\* a call begun while the shared counter is below the limit invokes it once and
\* raises its error, a call begun with the counter at or past the limit raises
\* the global-limit error without invoking it.
C8_NonRetryableOnceUnlessCeiling ==
  [][\A id \in Runs :
       (retry'[id] # retry[id] /\ AlwaysFailsWith(retry'[id], FatalErrors)) =>
         LET r == retry'[id] IN
         /\ r.retries = 0 /\ r.waits = <<>> /\ r.invoked <= 1
         /\ retry[id].pc = "idle" =>
               IF globalRetryCount >= globalRetryLimit
               THEN r.pc = "returned" /\ r.threw /\ r.result = GlobalError /\ r.invoked = 0
               ELSE r.pc = "pause" /\ r.invoked = 0
         /\ retry[id].pc = "pause" => r.pc = "operation" /\ r.invoked = 1
         /\ retry[id].pc = "operation" =>
               r.pc = "returned" /\ r.threw /\ r.result = r.operation.error /\ r.invoked = 1
    ]_vars

\* a call with maxRetries 2 has raised "invalid parameter" after one invocation
C8_Witness ==
  \E id \in Runs :
    /\ AlwaysFailsWith(retry[id], FatalErrors)
    /\ retry[id].pc = "returned" /\ retry[id].maxRetries = 2 /\ retry[id].invoked = 1
    /\ retry[id].result = <<"invalid", "parameter">>

\* C9: the shared counter never goes down, and every attempt (the first of a
\* call or a retry) made once it has passed globalRetryLimit ends the call at
\* once with the global-limit error: the operation is not invoked and nothing
\* is retried, whatever maxRetries and whatever the operation would raise.
C9_GlobalCeiling ==
  [][/\ globalRetryCount' >= globalRetryCount
     /\ \A id \in Runs :
          (globalRetryCount > globalRetryLimit /\ globalRetryCount' # globalRetryCount
             /\ retry'[id] # retry[id])
          => /\ retry'[id].pc = "returned"
             /\ retry'[id].threw /\ retry'[id].result = GlobalError
             /\ retry'[id].invoked = (IF retry[id].pc = "idle" THEN 0 ELSE retry[id].invoked)
             /\ retry'[id].retries = (IF retry[id].pc = "idle" THEN 0 ELSE retry[id].retries)
    ]_vars

\* with the counter past the limit, a call of a retryable operation with
\* maxRetries 2 has ended with the global-limit error and no invocation
C9_Witness ==
  /\ globalRetryCount > globalRetryLimit + 1
  /\ \E id \in Runs :
       /\ AlwaysFailsWith(retry[id], TransientErrors)
       /\ retry[id].pc = "returned" /\ retry[id].maxRetries = 2
       /\ retry[id].invoked = 0 /\ retry[id].result = GlobalError

(***************************************************************************)
(* Claims about callAgent                                                  *)
(***************************************************************************)
\* C10: callAgent never raises to its caller; when a step of the pipeline has
\* failed it resolves with success false and the error, and it resolves with
\* success true only when no step has failed.
C10_AgentNeverRaises ==
  /\ agent.pc # "raised"
  /\ (agent.pc # "idle" /\ agent.failed # "none") =>
        /\ agent.pc = "resolved"
        /\ ~agent.result.success /\ agent.result.error # "none"
  /\ (agent.pc = "resolved" /\ agent.result.success) => agent.failed = "none"

\* the second subtask's script has failed ten times after the first subtask
\* succeeded, and callAgent has resolved with success false
C10_Witness ==
  /\ agent.pc = "resolved" /\ ~agent.result.success
  /\ agent.failed = "script"
  /\ agent.result.error = "Script execution failed after 10 attempts."
  /\ agent.index = 2 /\ Len(agent.results) = 1

(***************************************************************************)
(* Claims about the registry                                               *)
(***************************************************************************)
\* C1: every updateTool that returns true has raised the patch component by
\* exactly 1 when it changed the source or the schema, and has left the version
\* alone when it changed neither.
C1_PatchBumpIffChanged ==
  (done.op = "updateTool" /\ done.ret) =>
     done.bump = (IF done.changed THEN 1 ELSE 0)

\* C2: addTool for a name that is already listed returns false and leaves the
\* registry as it was: it never gets past the existence check, and the step in
\* which it returns changes neither the list, nor any unit, nor the metrics.
C2_AddExistingIsNoOp ==
  [][/\ \A c \in Callers :
          (call[c].pc = "idle" /\ call'[c].pc = "add_standardize")
             => \A i \in DOMAIN tools : heap[tools[i]].name # call'[c].name
     /\ (done' # done /\ done'.op = "addTool" /\ done'.existed)
             => (~done'.ret /\ tools' = tools /\ heap' = heap /\ metrics' = metrics)
    ]_vars

\* an addTool for a listed name has returned false
C2_Witness ==
  done.op = "addTool" /\ done.existed /\ ~done.ret /\ Len(tools) >= 1

\* C3: no two listed units have the same name, whatever the interleaving.
C3_NamesUnique ==
  \A i, j \in DOMAIN tools : i # j => heap[tools[i]].name # heap[tools[j]].name

\* a step in which a removeTool call runs and returns (done records it; no
\* call in flight moves)
RemoveReturns == call' = call /\ done'.op = "removeTool" /\ (done' # done \/ tools' # tools)

\* C18: removeTool(name) returns true exactly when a unit of that name was
\* listed, and none is listed afterwards; it returns false and leaves the
\* registry as it was when none was listed; a removeTool(name) that follows a
\* removeTool(name) with no other call returning in between returns false.
C18_RemoveIdempotent ==
  [][RemoveReturns =>
       LET name == done'.name
           present == \E i \in DOMAIN tools : heap[tools[i]].name = name
       IN /\ done'.ret = present
          /\ \A i \in DOMAIN tools' : heap'[tools'[i]].name # name
          /\ ~present => (tools' = tools /\ heap' = heap /\ metrics' = metrics)
          /\ (done.op = "removeTool" /\ done.name = name) => ~done'.ret
    ]_vars

\* of two listed units one has just been removed and the other is still listed
C18_Witness ==
  /\ done.op = "removeTool" /\ done.ret
  /\ Len(tools) = 1 /\ heap[tools[1]].name # done.name

\* C19: once removeTool(name) has removed a unit, the metrics table has no
\* entry for name.
C19_RemoveDropsMetrics ==
  [][(RemoveReturns /\ done'.ret) => ~metrics'[done'.name].present]_vars

\* C20: a rollbackTool(name, version) that returns while no unit named name is
\* listed returns false and leaves the registry as it was; otherwise it returns
\* true and a unit named name has version `version` and is active, with its
\* source, schema, tags and test harness as before.
C20_RollbackFrame ==
  [][\A c \in Callers :
       (call[c].pc = "rb_resume" /\ call'[c].pc = "idle") =>
         LET name == call[c].name IN
         IF ~NameTaken(name)
         THEN ~done'.ret /\ tools' = tools /\ heap' = heap /\ metrics' = metrics
         ELSE /\ done'.ret
              /\ tools' = tools
              /\ \E i \in DOMAIN tools :
                    LET before == heap[tools[i]]
                        after == heap'[tools[i]]
                    IN /\ before.name = name
                       /\ after.version = call[c].version /\ after.active
                       /\ after.source = before.source /\ after.schema = before.schema
                       /\ after.tags = before.tags /\ after.testHarness = before.testHarness
    ]_vars

\* C13: for every attempt limit N, whenever callScript ends without a result the
\* error is 'Script execution failed after N attempts.' and the script was
\* attempted at most N times
C13_TerminalError ==
  cs.pc = "raised" => cs.error = ScriptFailed(cs.retryLimit) /\ cs.attempts <= cs.retryLimit

\* C14: in a callScript run that exhausts a budget N >= 2, exactly one failure
\* context sent to the repair chat carries the halfway annotation, for odd as
\* well as for even N
C14_OneHalfwayContext ==
  (cs.pc = "raised" /\ cs.retryLimit >= 2 /\ cs.retryCount = cs.retryLimit)
    => Cardinality({k \in DOMAIN cs.sent : cs.sent[k].halfway}) = 1

\* C15: at every attempt of callScript, if the current script text is the
\* source or the name of a registered unit, the attempt calls the unit through
\* the registry and the raw text is not executed
C15_RegisteredUnitPreferred ==
  (cs.pc = "attempt" /\ \E i \in DOMAIN tools :
                          \/ cs.script = <<heap[tools[i]].name>>
                          \/ cs.script = <<heap[tools[i]].source>>)
    => cs.via = "tool"

\* C15 witness: a later attempt, after a repair produced a registered source
C15_Witness ==
  cs.pc = "attempt" /\ cs.attempts >= 2 /\ cs.script = <<"s1">> /\ cs.via = "tool"

\* the store keys the result of the k-th task is expected under
TaskKeys(a, k) ==
  {taskIdOf(Field(a.tasks[k], "task"))}
    \cup (IF Field(a.tasks[k], "resultVar") # Undefined
          THEN {Field(a.tasks[k], "resultVar")} ELSE {})

\* C11: after a subtask with task id T and declared resultVar R has executed,
\* the store holds its result under the key T and under the key R
C11_ResultUnderBothKeys ==
  agent.pc # "idle" =>
    \A k \in 1..Len(agent.results) :
      \A key \in TaskKeys(agent, k) :
        key \in DOMAIN store /\ store[key] = [kind |-> "result", i |-> k]

Before(log, e1, e2) ==
  \E p, q \in DOMAIN log : p < q /\ log[p] = e1 /\ log[q] = e2

\* C12: the subtasks run in list order, one at a time: the script of subtask
\* i+1 starts only after the result of subtask i is in the store and its
\* <taskId>_results event is emitted, and the returned data lists the n
\* results in plan order
C12_InOrder ==
  agent.pc # "idle" =>
    /\ \A p \in DOMAIN agent.log :
         (agent.log[p].e = "scriptStart" /\ agent.log[p].i > 1) =>
           LET i == agent.log[p].i - 1
               upTo == SubSeq(agent.log, 1, p - 1)
           IN /\ Before(upTo, [e |-> "scriptStart", i |-> i], [e |-> "resultStored", i |-> i])
              /\ Before(upTo, [e |-> "resultStored", i |-> i], [e |-> "emitResults", i |-> i])
    /\ \A p, q \in DOMAIN agent.log :
         (agent.log[p].e = "scriptStart" /\ agent.log[q].e = "scriptStart" /\ p < q)
           => agent.log[p].i < agent.log[q].i
    /\ (agent.pc = "script" /\ agent.index > 1) =>
         (taskIdOf(Field(agent.tasks[agent.index - 1], "task")) \o <<"_results">>)
           \in DOMAIN store
    /\ cs.pc # "idle" => agent.pc = "script"
    /\ (agent.pc = "resolved" /\ agent.result.success /\ agent.result.data.kind = "results") =>
         agent.result.data.results
           = [k \in 1..Len(agent.tasks) |->
                [id |-> taskIdOf(Field(agent.tasks[k], "task")), i |-> k]]

\* C12 witness: a plan of two subtasks has run to the end
C12_Witness ==
  /\ agent.pc = "resolved" /\ agent.result.success
  /\ agent.result.data.kind = "results" /\ Len(agent.result.data.results) = 2

Product(memory) == memory.confidence * memory.similarity

TopAboveThreshold(memories) ==
  \E b \in DOMAIN memories :
    /\ \A k \in DOMAIN memories : Product(memories[k]) <= Product(memories[b])
    /\ memories[b].adjusted > CONFIDENCE_THRESHOLD

PastRecall == agent.pc \notin {"idle", "predict", "recall"} /\ agent.failed \notin {"predict", "recall"}

IsPrefix(s, t) == Len(s) <= Len(t) /\ s = SubSeq(t, 1, Len(s))

\* C16: when the matched memory with the highest confidence*similarity has an
\* adjusted confidence above 0.8 the run makes one adaptation call, updates that
\* record's confidence and returns the adapted response, with no decomposition
\* call, no subtask script and no new memory record; otherwise the
\* decomposition path is taken
C16_MemoryPath ==
  PastRecall =>
    IF TopAboveThreshold(agent.memories)
    THEN /\ agent.best # 0
         /\ \A k \in DOMAIN agent.memories :
              Product(agent.memories[k]) <= Product(agent.memories[agent.best])
         /\ IsPrefix(agent.log, <<[e |-> "adaptCall", i |-> 0], [e |-> "boost", i |-> agent.best]>>)
         /\ cs = NoScript /\ agent.tasks = <<>> /\ agent.results = <<>>
         /\ agent.pc = "resolved" =>
              IF agent.result.success
              THEN /\ agent.result.data.kind = "adapted"
                   /\ Len(agent.log) = 2
              ELSE agent.failed \in {"adapt", "boost"}
    ELSE /\ agent.best = 0
         /\ agent.log # <<>> /\ agent.log[1] = [e |-> "decomposeCall", i |-> 0]
         /\ \A p \in DOMAIN agent.log : agent.log[p].e \notin {"adaptCall", "boost"}
         /\ (agent.pc = "resolved" /\ agent.result.success)
              => agent.result.data.kind = "results"

\* C16 witness: the second of two memories is the best one and its response,
\* adapted, is returned
C16_Witness ==
  /\ agent.pc = "resolved" /\ agent.result.success /\ agent.result.data.kind = "adapted"
  /\ Len(agent.memories) = 2 /\ agent.best = 2

Happened(e) == \E p \in DOMAIN agent.log : agent.log[p].e = e

\* C17: a new memory record is stored only after every subtask has completed;
\* when a script fails terminally or the plan cannot be recovered, no memory is
\* stored, no matched memory's confidence is updated and no later subtask runs
C17_MemoryOnlyAfterAll ==
  agent.pc # "idle" =>
    /\ Happened("storeMemory") =>
         /\ Len(agent.results) = Len(agent.tasks)
         /\ \A k \in 1..Len(agent.tasks) :
              Before(agent.log, [e |-> "emitResults", i |-> k], [e |-> "storeMemory", i |-> 0])
    /\ Happened("refresh") => Happened("storeMemory")
    /\ agent.failed \in {"script", "recover", "task", "usedTools", "decompose"} =>
         /\ agent.pc = "resolved" /\ cs = NoScript
         /\ ~Happened("storeMemory") /\ ~Happened("refresh") /\ ~Happened("boost")
         /\ \A p \in DOMAIN agent.log :
              agent.log[p].e = "scriptStart" => agent.log[p].i <= agent.index

\* C17 witness: with a memory matched, the first script of a plan of two failed
\* terminally
C17_Witness ==
  /\ agent.pc = "resolved" /\ agent.failed = "script"
  /\ agent.index = 1 /\ Len(agent.tasks) = 2 /\ agent.memories # <<>>

\* C28: addTool for a new name does not fail because standardization failed:
\* when the standardization call throws, the unit is added with the original
\* source, at version 1.0.0, and addTool returns true
C28_StandardizeFallback ==
  [][\A c \in Callers :
       (/\ call[c].pc = "add_standardize" /\ call'[c].pc = "idle"
        /\ ~done'.standardized /\ call[c].schema # NoSchema)
         => /\ done'.op = "addTool" /\ done'.ret
            /\ Len(tools') = Len(tools) + 1
            /\ heap'[tools'[Len(tools')]].name = call[c].name
            /\ heap'[tools'[Len(tools')]].source = call[c].source
            /\ heap'[tools'[Len(tools')]].version = <<1, 0, 0>>]_vars

\* C28 witness: an addTool whose standardization threw has returned true
C28_Witness == done.op = "addTool" /\ done.ret /\ ~done.standardized

\* C21: runTests on a unit with a harness runs beforeAll first; a step that
\* throws leaves lastTestResult failed, no throw leaves it passed, and either
\* way the unit's test metrics advance by exactly one run
C21_RunTestsRecords ==
  (job.pc \in {"returned", "raised"} /\ job.op = "runTests" /\ job.harness # "") =>
    LET tool == heap[job.obj]
        was == job.before.metrics
    IN /\ job.ran[1] = "beforeAll"
       /\ tool.lastTestResult.recorded
       /\ tool.lastTestResult.success = (job.outcome = "passed")
       /\ tool.metrics.totalRuns = was.totalRuns + 1
       /\ tool.metrics.passed + tool.metrics.failed = was.passed + was.failed + 1

\* C22: runTests on a unit without a harness ends in a no-harness error: no
\* step is run, and lastTestResult and the test metrics stay as they were
C22_NoHarness ==
  (job.pc \in {"returned", "raised"} /\ job.op = "runTests" /\ job.harness = "") =>
    /\ job.outcome \in {"noHarness", "unhandled"}
    /\ job.ran = <<>>
    /\ heap[job.obj].lastTestResult = job.before.lastTestResult
    /\ heap[job.obj].metrics = job.before.metrics
    /\ metrics[job.name] = job.tableBefore

\* C22 witness: a run on the unit without a harness has ended
C22_Witness ==
  /\ job.pc = "returned" /\ job.op = "runTests" /\ job.harness = ""
  /\ job.outcome = "noHarness" /\ job.name = "b"

SameRate(r1, r2) == r1[1] * r2[2] = r2[1] * r1[2]

\* C23: for an invocation that ends in an error the new errorRate is
\* (rate*usageCount + 1)/(usageCount + 1) with the usageCount from before the
\* invocation was counted
C23_ErrorBeforeUsage ==
  (job.pc = "raised" /\ job.op = "call" /\ job.outcome = "threw") =>
    SameRate(heap[job.obj].metrics.errorRate,
             ErrorRate(job.before.metrics.errorRate, job.before.metrics.usageCount))

\* C24: in testAndImproveTools and in improveTools an improvement pass is
\* started for a unit only if its last test result is a recorded failure
C24_ImproveOnlyFailed ==
  [][(job'.pc = "improve_chat" /\ job.pc # "improve_chat")
       => /\ heap'[job'.obj].lastTestResult.recorded
          /\ ~heap'[job'.obj].lastTestResult.success]_vars

\* C29: every invocation of a unit by name from an execution context goes
\* through the registry so that its usageCount advances by one
C29_InvocationCounted ==
  (job.pc \in {"returned", "raised"} /\ job.op = "callTool" /\ job.outcome # "notFound") =>
    \/ heap[job.obj].metrics.usageCount = job.before.metrics.usageCount + 1
    \/ metrics[job.name].usageCount = job.tableBefore.usageCount + 1

\* C30: the counters of the registry's metrics table and the length of its
\* versions lists never decrease, whatever is added, updated, rolled back,
\* removed, tested or invoked
C30_CountersNeverDecrease ==
  [][\A n \in Names :
       /\ metrics'[n].totalUpdates >= metrics[n].totalUpdates
       /\ metrics'[n].totalRuns >= metrics[n].totalRuns
       /\ metrics'[n].passed >= metrics[n].passed
       /\ metrics'[n].failed >= metrics[n].failed
       /\ metrics'[n].totalExecutions >= metrics[n].totalExecutions
       /\ metrics'[n].usageCount >= metrics[n].usageCount
       /\ Len(metrics'[n].versions) >= Len(metrics[n].versions)
       /\ (metrics[n].present => metrics'[n].present)]_vars

\* C30 witness: unit a has been removed and its counters are still there
C30_Witness ==
  /\ ~NameTaken("a") /\ done.op = "removeTool" /\ done.ret
  /\ metrics["a"].totalUpdates >= 2 /\ metrics["a"].totalExecutions >= 1

\* the names the scripts of a plan's subtasks reference
ReferencedBy(tasks) ==
  UNION {extractUsedTools(Field(tasks[k], "script")) : k \in DOMAIN tasks}

\* C27: once a successful callAgent run has stored its memory record, the
\* record's used-capabilities set is exactly the set of names the scripts of
\* the run's subtasks reference
C27_MemoryCarriesUsedTools ==
  (agent.pc # "idle" /\ agent.stored.recorded) =>
     agent.stored.usedCapabilities = ReferencedBy(agent.tasks)

\* C25: a call with a responseFormat whose reply has arrived has returned: the
\* parsed value when the reply conforms to the format; otherwise the raw
\* reply text, stored under resultVar when one was given, with an 'error'
\* event emitted; it has not raised and is not left in error handling
C25_FormatMismatchDegrades ==
  (llm.pc # "idle" /\ llm.replied /\ llm.param.responseFormat # "") =>
     LET data == trim(llm.reply) IN
     /\ llm.pc = "returned"
     /\ IF jsonValidator(llm.param.responseFormat, data)
        THEN llm.result = Parsed(data)
        ELSE /\ llm.result = Raw(data)
             /\ llm.emitted
             /\ (llm.param.resultVar # "" => llm.stored = Raw(data))

\* C26: a call whose parameters fail validation raises that validation error
\* at once: no model call is made and callLLM is not invoked again
C26_ValidationNotRetried ==
  (llm.pc # "idle" /\ ValidationError(llm.param) # "none") =>
     /\ llm.pc = "raised" /\ llm.error = ValidationError(llm.param)
     /\ llm.chats = 0
     /\ llm.reinvoked = 0

\* the Tool objects the registry lists
Listed(tl) == {tl[i] : i \in DOMAIN tl}

\* C38: a Tool object that exists but is no longer in the registry's list (it
\* was removed) is never put into the list again, whatever operations on it
\* were suspended when it was removed
C38_RemovedStaysOut ==
  [][\A o \in ObjIds :
       (heap[o] # FreeSlot /\ o \notin Listed(tools)) => o \notin Listed(tools')]_vars

\* C37: in the metrics table each unit's versions list has one entry, and
\* totalUpdates counts one, per successful updateTool or rollbackTool and
\* nothing else: over all units there are never more entries than updateTool
\* and rollbackTool calls were begun
C37_OneEntryPerUpdate ==
  /\ \A n \in Names : metrics[n].totalUpdates = Len(metrics[n].versions)
  /\ metrics["a"].totalUpdates + metrics["b"].totalUpdates <= updatesBegun + rollbacksBegun

\* version labels compared part by part
Newer(v, w) ==
  \/ v[1] > w[1]
  \/ v[1] = w[1] /\ v[2] > w[2]
  \/ v[1] = w[1] /\ v[2] = w[2] /\ v[3] > w[3]

\* C34: the version an updateTool that changes source or schema assigns is
\* newer than the version the unit had and than every version the metrics
\* table has recorded for the unit, so no label of the history is used again
C34_UpdateVersionIsNew ==
  [][\A c \in Callers :
       (call[c].pc = "idle" /\ call'[c].pc # "idle" /\ call'[c].op = "updateTool"
          /\ call'[c].changed) =>
       /\ Newer(call'[c].newVersion, call'[c].oldVersion)
       /\ \A k \in DOMAIN metrics[call'[c].name].versions :
            Newer(call'[c].newVersion, metrics[call'[c].name].versions[k])]_vars

\* C31: while a later subtask's script runs, every member an earlier
\* script of the run assigned on taskResults is in its taskResults, with the
\* value that was assigned
C31_TaskResultsCarryOver ==
  (run.pc = "running" /\ run.k > 1) =>
     \A key \in DOMAIN run.written :
        /\ key \in DOMAIN run.context.taskResults
        /\ run.context.taskResults[key] = Stored(run.written[key])

\* C36: a successful invocation of a registered capability from a script
\* gives the script the value the capability's module returned
C36_InvocationYieldsResult ==
  (run.pc = "running" /\ run.invoked /\ run.binding.kind = "registry") =>
     run.yielded = run.returned

\* C40: in the context of every script, each registered capability name is
\* bound, at the top level, to that capability's invocable
C40_NamesBoundAtTopLevel ==
  run.pc = "running" =>
     \A n \in RegisteredNames :
        n \in DOMAIN run.context.top /\ run.context.top[n] = RegistryTool(n)

\* C39: when the decomposition reply has arrived and yields no subtask, the
\* run has ended with {success: false} and the 'must be an array of subtasks'
\* error; no script was started and no memory record was stored
C39_EmptyPlanFails ==
  (/\ agent.pc \notin {"idle", "decompose"} /\ Happened("decomposeCall")
   /\ agent.failed # "decompose" /\ agent.tasks = <<>>) =>
     /\ agent.pc = "resolved" /\ ~agent.result.success /\ agent.failed = "recover"
     /\ ~Happened("scriptStart")
     /\ ~Happened("storeMemory")

\* the invocations a call has made so far
InvokedBy(r) == IF r.pc = "idle" THEN 0 ELSE r.invoked

\* C33: the shared counter never goes down, and every invocation of an
\* operation body follows its own counted attempt whose count was within
\* the global ceiling: a step moves one call at most, a call gets to its
\* pause only by a count of at most 100, and each pause is followed by one
\* invocation, so there are never more than 100 invocations in all
C33_InvocationsWithinCeiling ==
  [][/\ globalRetryCount' >= globalRetryCount
     /\ Cardinality({id \in Runs : retry'[id] # retry[id]}) <= 1
     /\ \A id \in Runs :
          /\ (retry'[id].pc # "idle" /\ InvokedBy(retry'[id]) # InvokedBy(retry[id])) =>
                /\ InvokedBy(retry'[id]) = InvokedBy(retry[id]) + 1
                /\ retry[id].pc = "pause" /\ retry'[id].pc = "operation"
          /\ (retry'[id].pc = "pause" /\ retry[id].pc # "pause") =>
                /\ globalRetryCount' = globalRetryCount + 1
                /\ globalRetryCount' <= globalRetryLimit
          /\ (retry[id].pc = "pause" /\ retry'[id] # retry[id]) => retry'[id].pc = "operation"
    ]_vars

\* C33 witness: the hundredth counted attempt has invoked its operation, after
\* a retry, while the other call has ended
C33_Witness ==
  /\ globalRetryCount = globalRetryLimit
  /\ retry["r1"].pc = "operation" /\ retry["r1"].retries = 1 /\ retry["r1"].invoked = 2
  /\ retry["r2"].pc = "returned"

\* C35: a callTool call raises the 'not found' error only when no unit of that
\* name is registered: for a registered unit whose module loads, every call
\* is dispatched to the registry
C35_NotFoundOnlyWhenAbsent ==
  (/\ dispatch.pc \in {"returned", "raised"} /\ dispatch.name \in Names
   /\ NameTaken(dispatch.name) /\ dispatch.importOk) =>
     /\ dispatch.dispatched >= 1
     /\ (dispatch.pc = "raised" => dispatch.error # NotFound(dispatch.name))

====
